---- MODULE Spec2Model ----
(***************************************************************************)
(* Ledger model of the expense tracker's two storage implementations:      *)
(*   DatabaseStorage (src/server/database-storage.ts, PostgreSQL/drizzle)   *)
(*   MemStorage      (src/unnamed/part_001, the in-memory maps)             *)
(*                                                                         *)
(* Money is counted in whole units (the code uses doubles; rounding is not  *)
(* modelled).  Rows carry only the columns the ledger logic reads:          *)
(*   account      [balance]                                                 *)
(*   category     [name]            name is a sequence of characters        *)
(*   transaction  [amount, type, accountId, categoryId]                     *)
(* A patch (Partial<Insert...>) is a function whose domain is the set of    *)
(* columns the caller supplied; description/date-only patches are the       *)
(* patches with an empty domain.                                            *)
(***************************************************************************)
EXTENDS Integers, Sequences, FiniteSets, TLC

(***************************************************************************)
(* Bounds of the model.                                                    *)
(***************************************************************************)
MaxAccounts == 2
MaxCategories == 2
MaxTransactions == 1
MaxDrift == 2
InitialBalance == 10
MaxCalls == 1

(***************************************************************************)
(* Rows seeded by MemStorage.initializeDefaultData: the id counters stand   *)
(* past them for the whole life of a MemStorage.                            *)
(***************************************************************************)
MemSeedAccounts == 3
MemSeedIncomeCategories == 4
MemSeedExpenseCategories == 5
MemSeedTransactions == 5

VARIABLES
    impl,                       \* which IStorage implementation is running
    accounts,                   \* id -> account row
    incomeCategories,           \* id -> category row
    expenseCategories,          \* id -> category row
    transactions,               \* id -> transaction row
    accountIdCounter,           \* next account id (serial / counter)
    incomeCategoryIdCounter,
    expenseCategoryIdCounter,
    transactionIdCounter,
    initialBalance,             \* id -> balance the account was created with
    last,                       \* the last completed call: [op, id, result]
    now,                        \* new Date(): the clock of the server
    timezone,                   \* the time zone of the server process
    resolved,                   \* the last period resolved and its interval
    conn,                       \* connection -> the call it serves and its locals
    pending                     \* MemStorage: the calls suspended at an await, in
                                \* the order they resume

storeVars == <<accounts, incomeCategories, expenseCategories, transactions,
               accountIdCounter, incomeCategoryIdCounter,
               expenseCategoryIdCounter, transactionIdCounter>>

(***************************************************************************)
(* JavaScript values.                                                      *)
(***************************************************************************)
Has(patch, f) == f \in DOMAIN patch

\* x || y, x && ... on numbers: 0 is falsy
TruthyNum(patch, f) == Has(patch, f) /\ patch[f] # 0

\* the same on strings: "" is falsy
TruthyStr(patch, f) == Has(patch, f) /\ patch[f] # ""

\* name.toLowerCase() / SQL lower(name), character by character
LowerChar(c) ==
    CASE c = "A" -> "a"
      [] c = "B" -> "b"
      [] OTHER -> c

toLowerCase(name) == [i \in 1..Len(name) |-> LowerChar(name[i])]

(***************************************************************************)
(* The store as one value, so that a handler is a function of the store.    *)
(***************************************************************************)
Store ==
    [accounts |-> accounts,
     incomeCategories |-> incomeCategories,
     expenseCategories |-> expenseCategories,
     transactions |-> transactions,
     accountIdCounter |-> accountIdCounter,
     incomeCategoryIdCounter |-> incomeCategoryIdCounter,
     expenseCategoryIdCounter |-> expenseCategoryIdCounter,
     transactionIdCounter |-> transactionIdCounter]

Put(rows, id, row) == [x \in DOMAIN rows \cup {id} |-> IF x = id THEN row ELSE rows[x]]

Remove(rows, id) == [x \in DOMAIN rows \ {id} |-> rows[x]]

\* { ...row, ...patch }
Merge(row, patch) == [f \in DOMAIN row |-> IF Has(patch, f) THEN patch[f] ELSE row[f]]

\* what a call returns: the store it leaves, its outcome, the id it concerned
Return(S, result, id) == [store |-> S, result |-> result, id |-> id]

Throw(S, id) == Return(S, "error", id)

categoriesOf(S, type) ==
    IF type = "income" THEN S.incomeCategories ELSE S.expenseCategories

(***************************************************************************)
(* SQL statements of DatabaseStorage, each a function of the rows it sees.  *)
(***************************************************************************)
\* select().from(accounts).where(eq(accounts.id, id)): the rows found
SelectAccount(S, id) == {a \in DOMAIN S.accounts : a = id}

\* update(accounts).set({ balance }) without its where clause
SetBalance_EveryRow(S, id, balance) ==
    [S EXCEPT !.accounts = [a \in DOMAIN @ |-> [@[a] EXCEPT !.balance = balance]]]

\* update(accounts).set({ balance }).where(eq(accounts.id, id))
SetBalance(S, id, balance) ==
    [S EXCEPT !.accounts = [a \in DOMAIN @ |->
        IF a = id THEN [@[a] EXCEPT !.balance = balance] ELSE @[a]]]

\* insert(transactions).values(t).returning(): the serial column numbers the row
InsertTransaction(S, t) ==
    [S EXCEPT !.transactions = Put(@, S.transactionIdCounter, t),
              !.transactionIdCounter = @ + 1]

\* select count(*) from transactions where account_id = id
CountByAccount(S, id) ==
    Cardinality({t \in DOMAIN S.transactions : S.transactions[t].accountId = id})

\* a count that leaves out "and type = ..."
CountByCategory_AnyType(S, id, type) ==
    Cardinality({t \in DOMAIN S.transactions : S.transactions[t].categoryId = id})

\* select count(*) from transactions where category_id = id and type = type
CountByCategory(S, id, type) ==
    Cardinality({t \in DOMAIN S.transactions :
        S.transactions[t].categoryId = id /\ S.transactions[t].type = type})

\* a duplicate check that compares the names as they are
SelectByLowerName_Exact(rows, name, id) ==
    {c \in DOMAIN rows : rows[c].name = name /\ c # id}

\* where lower(name) = lower(${name}) [and id <> ${id}]; id = 0 excludes no row
SelectByLowerName(rows, name, id) ==
    {c \in DOMAIN rows : toLowerCase(rows[c].name) = toLowerCase(name) /\ c # id}

\* name text not null unique: the rows an insert or update of name collides with
UniqueViolation(rows, name, id) ==
    {c \in DOMAIN rows : rows[c].name = name /\ c # id}

(***************************************************************************)
(* DatabaseStorage: accounts.                                              *)
(***************************************************************************)
DbCreateAccount(S, account) ==
    Return([S EXCEPT !.accounts = Put(@, S.accountIdCounter, account),
                     !.accountIdCounter = @ + 1],
           "ok", S.accountIdCounter)

\* update(accounts).set(account).where(eq(accounts.id, id)).returning()
DbUpdateAccount(S, id, account) ==
    IF id \notin DOMAIN S.accounts THEN Return(S, "undefined", id)
    ELSE Return([S EXCEPT !.accounts = Put(@, id, Merge(@[id], account))], "ok", id)

DbDeleteAccount(S, id) ==
    IF CountByAccount(S, id) > 0
    THEN Throw(S, id)
    ELSE Return([S EXCEPT !.accounts = Remove(@, id)],
                IF id \in DOMAIN S.accounts THEN "true" ELSE "false", id)

(***************************************************************************)
(* DatabaseStorage: categories.  kind is "income" or "expense"; the two     *)
(* tables and their methods differ only in the table they name.             *)
(***************************************************************************)
SetCategories(S, kind, rows) ==
    IF kind = "income" THEN [S EXCEPT !.incomeCategories = rows]
    ELSE [S EXCEPT !.expenseCategories = rows]

CategoryIdCounter(S, kind) ==
    IF kind = "income" THEN S.incomeCategoryIdCounter ELSE S.expenseCategoryIdCounter

BumpCategoryIdCounter(S, kind) ==
    IF kind = "income" THEN [S EXCEPT !.incomeCategoryIdCounter = @ + 1]
    ELSE [S EXCEPT !.expenseCategoryIdCounter = @ + 1]

\* insert(table).values(category).returning(): nextval is consumed even when the
\* unique index rejects the row
InsertCategory(S, kind, category) ==
    LET id == CategoryIdCounter(S, kind)
        S1 == BumpCategoryIdCounter(S, kind)
    IN  IF UniqueViolation(categoriesOf(S, kind), category.name, 0) # {}
        THEN Throw(S1, 0)
        ELSE Return(SetCategories(S1, kind, Put(categoriesOf(S, kind), id, category)),
                    "ok", id)

DbCreateCategory(S, kind, category) ==
    IF SelectByLowerName(categoriesOf(S, kind), category.name, 0) # {}
    THEN Throw(S, 0)
    ELSE InsertCategory(S, kind, category)

\* update(table).set(category).where(eq(table.id, id)).returning()
UpdateCategoryRow(S, kind, id, category) ==
    LET rows == categoriesOf(S, kind)
    IN  IF id \notin DOMAIN rows THEN Return(S, "undefined", id)
        ELSE IF Has(category, "name") /\ UniqueViolation(rows, category.name, id) # {}
        THEN Throw(S, id)
        ELSE Return(SetCategories(S, kind, Put(rows, id, Merge(rows[id], category))),
                    "ok", id)

DbUpdateCategory(S, kind, id, category) ==
    IF TruthyStr(category, "name")
       /\ SelectByLowerName(categoriesOf(S, kind), category.name, id) # {}
    THEN Throw(S, id)
    ELSE UpdateCategoryRow(S, kind, id, category)

DbDeleteCategory(S, kind, id) ==
    IF CountByCategory(S, id, kind) > 0
    THEN Throw(S, id)
    ELSE Return(SetCategories(S, kind, Remove(categoriesOf(S, kind), id)),
                IF id \in DOMAIN categoriesOf(S, kind) THEN "true" ELSE "false", id)

(***************************************************************************)
(* DatabaseStorage: transactions.  Each method is one db.transaction.       *)
(***************************************************************************)
\* balanceChange / newBalanceChange: income adds, anything else subtracts
DbBalanceChange(type, amount) == IF type = "income" THEN amount ELSE -amount

\* oldBalanceChange, and deleteTransaction's balanceChange: the reversal
DbOldBalanceChange(type, amount) == IF type = "income" THEN -amount ELSE amount

\* if (account) update(accounts).set({ balance: account.balance + change })
DbAdjust(S, found, change) ==
    IF found = {} THEN S
    ELSE LET a == CHOOSE x \in found : TRUE
         IN  SetBalance(S, a, S.accounts[a].balance + change)

DbCreateTransaction(S, t) ==
    LET S1 == InsertTransaction(S, t)
        account == SelectAccount(S1, t.accountId)
    IN  Return(DbAdjust(S1, account, DbBalanceChange(t.type, t.amount)),
               "ok", S.transactionIdCounter)

\* transaction.accountId || existingTransaction.accountId
DbNewAccountId(existing, patch) ==
    IF TruthyNum(patch, "accountId") THEN patch.accountId ELSE existing.accountId

\* transaction.type || existingTransaction.type
DbNewType(existing, patch) ==
    IF TruthyStr(patch, "type") THEN patch.type ELSE existing.type

\* transaction.amount !== undefined ? transaction.amount : existingTransaction.amount
DbNewAmount(existing, patch) ==
    IF Has(patch, "amount") THEN patch.amount ELSE existing.amount

\* amount, type or accountId supplied
DbTouchesBalance(patch) ==
    Has(patch, "amount") \/ Has(patch, "type") \/ Has(patch, "accountId")

\* an updateTransaction that reverses the old effect before it looks at the patch
DbUpdateTransaction_ReversesFirst(S, id, patch) ==
    IF id \notin DOMAIN S.transactions THEN Return(S, "undefined", id)
    ELSE
    LET existing == S.transactions[id]
        S1 == DbAdjust(S, SelectAccount(S, existing.accountId),
                       DbOldBalanceChange(existing.type, existing.amount))
        S2 == DbAdjust(S1, SelectAccount(S1, DbNewAccountId(existing, patch)),
                       DbBalanceChange(DbNewType(existing, patch),
                                       DbNewAmount(existing, patch)))
        S3 == IF DbTouchesBalance(patch) THEN S2 ELSE S1
    IN  Return([S3 EXCEPT !.transactions = Put(@, id, Merge(existing, patch))],
               "ok", id)

DbUpdateTransaction(S, id, patch) ==
    IF id \notin DOMAIN S.transactions THEN Return(S, "undefined", id)
    ELSE
    LET existing == S.transactions[id]
        S1 == DbAdjust(S, SelectAccount(S, existing.accountId),
                       DbOldBalanceChange(existing.type, existing.amount))
        S2 == DbAdjust(S1, SelectAccount(S1, DbNewAccountId(existing, patch)),
                       DbBalanceChange(DbNewType(existing, patch),
                                       DbNewAmount(existing, patch)))
        S3 == IF DbTouchesBalance(patch) THEN S2 ELSE S
    IN  Return([S3 EXCEPT !.transactions = Put(@, id, Merge(existing, patch))],
               "ok", id)

DbDeleteTransaction(S, id) ==
    IF id \notin DOMAIN S.transactions THEN Return(S, "false", id)
    ELSE
    LET transaction == S.transactions[id]
        S1 == DbAdjust(S, SelectAccount(S, transaction.accountId),
                       DbOldBalanceChange(transaction.type, transaction.amount))
    IN  Return([S1 EXCEPT !.transactions = Remove(@, id)], "true", id)

(***************************************************************************)
(* MemStorage: accounts.                                                   *)
(***************************************************************************)
MemCreateAccount(S, account) ==
    Return([S EXCEPT !.accounts = Put(@, S.accountIdCounter, account),
                     !.accountIdCounter = @ + 1],
           "ok", S.accountIdCounter)

\* updateAccount(id, { balance }): a no-op returning undefined without the account
MemUpdateAccount(S, id, account) ==
    IF id \notin DOMAIN S.accounts THEN S
    ELSE [S EXCEPT !.accounts = Put(@, id, Merge(@[id], account))]

MemDeleteAccount(S, id) ==
    IF id \notin DOMAIN S.accounts THEN Return(S, "false", id)
    ELSE IF \E t \in DOMAIN S.transactions : S.transactions[t].accountId = id
    THEN Throw(S, id)
    ELSE Return([S EXCEPT !.accounts = Remove(@, id)], "true", id)

(***************************************************************************)
(* MemStorage: categories.                                                 *)
(***************************************************************************)
\* find(cat => cat.name.toLowerCase() === name.toLowerCase() [&& cat.id !== id])
MemExistingWithName(rows, name, id) ==
    {c \in DOMAIN rows : toLowerCase(rows[c].name) = toLowerCase(name) /\ c # id}

MemCreateCategory(S, kind, category) ==
    IF MemExistingWithName(categoriesOf(S, kind), category.name, 0) # {}
    THEN Throw(S, 0)
    ELSE LET id == CategoryIdCounter(S, kind)
         IN  Return(SetCategories(BumpCategoryIdCounter(S, kind), kind,
                                  Put(categoriesOf(S, kind), id, category)),
                    "ok", id)

MemUpdateCategory(S, kind, id, category) ==
    LET rows == categoriesOf(S, kind)
    IN  IF id \notin DOMAIN rows THEN Return(S, "undefined", id)
        ELSE IF TruthyStr(category, "name") /\ category.name # rows[id].name
                /\ MemExistingWithName(rows, category.name, id) # {}
        THEN Throw(S, id)
        ELSE Return(SetCategories(S, kind, Put(rows, id, Merge(rows[id], category))),
                    "ok", id)

MemDeleteCategory(S, kind, id) ==
    LET rows == categoriesOf(S, kind)
    IN  IF id \notin DOMAIN rows THEN Return(S, "false", id)
        ELSE IF \E t \in DOMAIN S.transactions :
                    S.transactions[t].type = kind /\ S.transactions[t].categoryId = id
        THEN Throw(S, id)
        ELSE Return(SetCategories(S, kind, Remove(rows, id)), "true", id)

(***************************************************************************)
(* MemStorage: transactions.                                               *)
(***************************************************************************)
\* the category lookup for a type; a type that is neither has no lookup
MemCategoryMissing(S, type, categoryId) ==
    /\ type \in {"income", "expense"}
    /\ categoryId \notin DOMAIN categoriesOf(S, type)

\* a createTransaction that forgets the sign of an expense
MemApply_NoSign(balance, type, amount) == balance + amount

\* type === "income" ? balance + amount : balance - amount
MemApply(balance, type, amount) ==
    IF type = "income" THEN balance + amount ELSE balance - amount

\* a reversal that applies the effect once more
MemRevert_Applies(balance, type, amount) ==
    IF type = "income" THEN balance + amount ELSE balance - amount

\* type === "income" ? balance - amount : balance + amount
MemRevert(balance, type, amount) ==
    IF type = "income" THEN balance - amount ELSE balance + amount

MemCreateTransaction(S, t) ==
    IF t.accountId \notin DOMAIN S.accounts THEN Throw(S, 0)
    ELSE IF MemCategoryMissing(S, t.type, t.categoryId) THEN Throw(S, 0)
    ELSE IF t.type \notin {"income", "expense"} THEN Throw(S, 0)
    ELSE
    LET id == S.transactionIdCounter
        account == S.accounts[t.accountId]
        S1 == [S EXCEPT !.transactions = Put(@, id, t),
                        !.transactionIdCounter = @ + 1]
    IN  Return(MemUpdateAccount(S1, t.accountId,
                   [balance |-> MemApply(account.balance, t.type, t.amount)]),
               "ok", id)

\* transaction.amount || existingTransaction.amount
MemNewAmount(existing, patch) ==
    IF TruthyNum(patch, "amount") THEN patch.amount ELSE existing.amount

\* transaction.type || existingTransaction.type
MemNewType(existing, patch) ==
    IF TruthyStr(patch, "type") THEN patch.type ELSE existing.type

\* transaction.accountId && transaction.accountId !== existingTransaction.accountId
MemAccountChanges(existing, patch) ==
    TruthyNum(patch, "accountId") /\ patch.accountId # existing.accountId

\* (amount && amount !== existing.amount) || (type && type !== existing.type)
MemAmountOrTypeChanges(existing, patch) ==
    \/ TruthyNum(patch, "amount") /\ patch.amount # existing.amount
    \/ TruthyStr(patch, "type") /\ patch.type # existing.type

\* "Handle account change and balance updates": the store it leaves
MemRebalance(S, existing, patch) ==
    IF MemAccountChanges(existing, patch)
    THEN LET oldAccount == SelectAccount(S, existing.accountId)
             newAccount == S.accounts[patch.accountId]
             S1 == IF oldAccount = {} THEN S
                   ELSE MemUpdateAccount(S, existing.accountId,
                            [balance |-> MemRevert(S.accounts[existing.accountId].balance,
                                                   existing.type, existing.amount)])
         IN  MemUpdateAccount(S1, patch.accountId,
                 [balance |-> MemApply(newAccount.balance,
                                       MemNewType(existing, patch),
                                       MemNewAmount(existing, patch))])
    ELSE IF MemAmountOrTypeChanges(existing, patch)
            /\ existing.accountId \in DOMAIN S.accounts
    THEN LET account == S.accounts[existing.accountId]
             accountBalanceAfterRevert ==
                 MemRevert(account.balance, existing.type, existing.amount)
         IN  MemUpdateAccount(S, existing.accountId,
                 [balance |-> MemApply(accountBalanceAfterRevert,
                                       MemNewType(existing, patch),
                                       MemNewAmount(existing, patch))])
    ELSE S

\* "Validate category if changed": TRUE when one of the three branches throws
MemCategoryInvalid(S, existing, patch) ==
    IF TruthyNum(patch, "categoryId") /\ TruthyStr(patch, "type")
    THEN MemCategoryMissing(S, patch.type, patch.categoryId)
    ELSE IF TruthyNum(patch, "categoryId")
    THEN MemCategoryMissing(S, existing.type, patch.categoryId)
    ELSE IF TruthyStr(patch, "type") /\ patch.type # existing.type
    THEN MemCategoryMissing(S, patch.type, existing.categoryId)
    ELSE FALSE

MemUpdateTransaction(S, id, patch) ==
    IF id \notin DOMAIN S.transactions THEN Return(S, "undefined", id)
    ELSE
    LET existing == S.transactions[id]
    IN  IF MemAccountChanges(existing, patch)
           /\ patch.accountId \notin DOMAIN S.accounts
        THEN Throw(S, id)
        ELSE LET S1 == MemRebalance(S, existing, patch)
             IN  IF MemCategoryInvalid(S1, existing, patch)
                 THEN Throw(S1, id)
                 ELSE Return([S1 EXCEPT !.transactions =
                                  Put(@, id, Merge(existing, patch))],
                             "ok", id)

\* a delete that reports success without looking for the row
MemDeleteTransaction_Unchecked(S, id) ==
    Return([S EXCEPT !.transactions = Remove(@, id)], "true", id)

MemDeleteTransaction(S, id) ==
    IF id \notin DOMAIN S.transactions THEN Return(S, "false", id)
    ELSE
    LET transaction == S.transactions[id]
        S1 == IF transaction.accountId \in DOMAIN S.accounts
              THEN MemUpdateAccount(S, transaction.accountId,
                       [balance |-> MemRevert(S.accounts[transaction.accountId].balance,
                                              transaction.type, transaction.amount)])
              ELSE S
    IN  Return([S1 EXCEPT !.transactions = Remove(@, id)], "true", id)

(***************************************************************************)
(* IStorage: the call goes to the implementation that `storage` names.      *)
(***************************************************************************)
createAccount(i, S, account) ==
    IF i = "db" THEN DbCreateAccount(S, account) ELSE MemCreateAccount(S, account)

updateAccount(i, S, id, account) ==
    IF i = "db" THEN DbUpdateAccount(S, id, account)
    ELSE Return(MemUpdateAccount(S, id, account),
                IF id \in DOMAIN S.accounts THEN "ok" ELSE "undefined", id)

deleteAccount(i, S, id) ==
    IF i = "db" THEN DbDeleteAccount(S, id) ELSE MemDeleteAccount(S, id)

createCategory(i, S, kind, category) ==
    IF i = "db" THEN DbCreateCategory(S, kind, category)
    ELSE MemCreateCategory(S, kind, category)

updateCategory(i, S, kind, id, category) ==
    IF i = "db" THEN DbUpdateCategory(S, kind, id, category)
    ELSE MemUpdateCategory(S, kind, id, category)

deleteCategory(i, S, kind, id) ==
    IF i = "db" THEN DbDeleteCategory(S, kind, id) ELSE MemDeleteCategory(S, kind, id)

createTransaction(i, S, t) ==
    IF i = "db" THEN DbCreateTransaction(S, t) ELSE MemCreateTransaction(S, t)

updateTransaction(i, S, id, patch) ==
    IF i = "db" THEN DbUpdateTransaction(S, id, patch)
    ELSE MemUpdateTransaction(S, id, patch)

deleteTransaction(i, S, id) ==
    IF i = "db" THEN DbDeleteTransaction(S, id) ELSE MemDeleteTransaction(S, id)

(***************************************************************************)
(* Starting stores.                                                        *)
(***************************************************************************)
Rows0 == [x \in {} |-> 0]

\* an empty database: every serial column starts at 1
DbFresh ==
    [accounts |-> Rows0, incomeCategories |-> Rows0, expenseCategories |-> Rows0,
     transactions |-> Rows0,
     accountIdCounter |-> 1, incomeCategoryIdCounter |-> 1,
     expenseCategoryIdCounter |-> 1, transactionIdCounter |-> 1]

\* a MemStorage whose seeded rows have all been deleted again: the maps are
\* empty and the counters stand where initializeDefaultData left them
MemFresh ==
    [accounts |-> Rows0, incomeCategories |-> Rows0, expenseCategories |-> Rows0,
     transactions |-> Rows0,
     accountIdCounter |-> MemSeedAccounts + 1,
     incomeCategoryIdCounter |-> MemSeedIncomeCategories + 1,
     expenseCategoryIdCounter |-> MemSeedExpenseCategories + 1,
     transactionIdCounter |-> MemSeedTransactions + 1]

Fresh(i) == IF i = "db" THEN DbFresh ELSE MemFresh

\* the k-th category name of the starting store: k letters "a"
StartName(k) == [j \in 1..k |-> "a"]

RECURSIVE WithAccounts(_, _, _, _)
WithAccounts(i, S, n, b) ==
    IF n = 0 THEN S
    ELSE createAccount(i, WithAccounts(i, S, n - 1, b), [balance |-> b]).store

RECURSIVE WithCategories(_, _, _, _)
WithCategories(i, S, kind, n) ==
    IF n = 0 THEN S
    ELSE createCategory(i, WithCategories(i, S, kind, n - 1), kind,
                        [name |-> StartName(n)]).store

\* the store after MaxAccounts createAccount calls with balance b and
\* MaxCategories createIncomeCategory and createExpenseCategory calls
StartStore(i, b) ==
    WithCategories(i,
        WithCategories(i, WithAccounts(i, Fresh(i), MaxAccounts, b),
                       "income", MaxCategories),
        "expense", MaxCategories)

\* the balances an account is created with
InitialBalances == {0, InitialBalance}

(***************************************************************************)
(* Inputs of the calls.                                                    *)
(***************************************************************************)
Amounts == {0, 1, 2}

Types == {"income", "expense", "other"}

Names == {<<>>, <<"A">>, <<"a">>, <<"b">>}

Ids(first, n) == first .. (first + n - 1)

\* 0 is the id no row ever has (and the falsy one)
AccountIdsOf(i) == {0} \cup Ids(Fresh(i).accountIdCounter, MaxAccounts)

IncomeCategoryIdsOf(i) == Ids(Fresh(i).incomeCategoryIdCounter, MaxCategories)

ExpenseCategoryIdsOf(i) == Ids(Fresh(i).expenseCategoryIdCounter, MaxCategories)

CategoryIdsOf(i) == IncomeCategoryIdsOf(i) \cup ExpenseCategoryIdsOf(i)

TransactionIdsOf(i) == Ids(Fresh(i).transactionIdCounter, MaxTransactions)

\* a category id of the starting store that both kinds have
SharedCategoryIdOf(i) ==
    CHOOSE c \in IncomeCategoryIdsOf(i) \cap ExpenseCategoryIdsOf(i) :
        \A d \in IncomeCategoryIdsOf(i) \cap ExpenseCategoryIdsOf(i) : c <= d

TransactionsOf(amounts, accountIds, categoryIds) ==
    [amount : amounts, type : Types, accountId : accountIds, categoryId : categoryIds]

\* the patches over some columns: every choice of supplied columns
Extend(patches, f, values) ==
    patches \cup {(f :> v) @@ p : p \in patches, v \in values}

BalancePatchesOf(i) ==
    Extend(Extend(Extend({Rows0}, "amount", Amounts), "type", Types),
           "accountId", AccountIdsOf(i))

NamePatches == Extend({Rows0}, "name", Names)

AccountIdInputs == AccountIdsOf(impl)
CategoryIdInputs == CategoryIdsOf(impl)
TransactionIdInputs == TransactionIdsOf(impl)

(***************************************************************************)
(* The calls, each run to completion.                                      *)
(***************************************************************************)
\* the model follows a balance no further than MaxDrift from where it started
WithinDrift(S) ==
    \A a \in DOMAIN S.accounts :
        /\ S.accounts[a].balance <= initialBalance[a] + MaxDrift
        /\ S.accounts[a].balance >= initialBalance[a] - MaxDrift

Complete(op, r) ==
    /\ accounts' = r.store.accounts
    /\ incomeCategories' = r.store.incomeCategories
    /\ expenseCategories' = r.store.expenseCategories
    /\ transactions' = r.store.transactions
    /\ accountIdCounter' = r.store.accountIdCounter
    /\ incomeCategoryIdCounter' = r.store.incomeCategoryIdCounter
    /\ expenseCategoryIdCounter' = r.store.expenseCategoryIdCounter
    /\ transactionIdCounter' = r.store.transactionIdCounter
    /\ last' = [op |-> op, id |-> r.id, result |-> r.result]
    /\ UNCHANGED <<impl, timezone, pending, now, resolved, initialBalance, conn>>
    /\ WithinDrift(r.store)

CreateTransaction(t) ==
    /\ transactionIdCounter < Fresh(impl).transactionIdCounter + MaxTransactions
    /\ Complete("createTransaction", createTransaction(impl, Store, t))

UpdateTransaction(id, patch) ==
    Complete("updateTransaction", updateTransaction(impl, Store, id, patch))

DeleteTransaction(id) ==
    Complete("deleteTransaction", deleteTransaction(impl, Store, id))

UpdateAccount(id, account) ==
    Complete("updateAccount", updateAccount(impl, Store, id, account))

DeleteAccount(id) ==
    Complete("deleteAccount", deleteAccount(impl, Store, id))

CreateIncomeCategory(category) ==
    /\ incomeCategoryIdCounter < Fresh(impl).incomeCategoryIdCounter + MaxCategories
    /\ Complete("createIncomeCategory", createCategory(impl, Store, "income", category))

CreateExpenseCategory(category) ==
    /\ expenseCategoryIdCounter < Fresh(impl).expenseCategoryIdCounter + MaxCategories
    /\ Complete("createExpenseCategory", createCategory(impl, Store, "expense", category))

UpdateIncomeCategory(id, category) ==
    Complete("updateIncomeCategory", updateCategory(impl, Store, "income", id, category))

UpdateExpenseCategory(id, category) ==
    Complete("updateExpenseCategory", updateCategory(impl, Store, "expense", id, category))

DeleteIncomeCategory(id) ==
    Complete("deleteIncomeCategory", deleteCategory(impl, Store, "income", id))

DeleteExpenseCategory(id) ==
    Complete("deleteExpenseCategory", deleteCategory(impl, Store, "expense", id))

NoCall == [op |-> "none", id |-> 0, result |-> "none"]

\* the connections of the pool that requests run on
Connections == {"c1", "c2"}

NoTransaction == [amount |-> 0, type |-> "", accountId |-> 0, categoryId |-> 0]

\* a connection that serves no call
Idle ==
    [pc |-> "idle", calls |-> 0, op |-> "none", result |-> "none",
     t |-> NoTransaction,       \* createTransaction: the transaction
     id |-> 0,                  \* the id the call names or was given
     kind |-> "", name |-> <<>>, \* createCategory: the table and the name
     patch |-> Rows0,           \* updateTransaction: the patch
     todo |-> <<>>,             \* the balance adjustments still to make
     found |-> {},              \* the rows the select returned
     balance |-> 0,             \* account.balance as selected
     wrote |-> {},              \* the account rows updated and not yet committed
     writes |-> Rows0,          \* account id -> the balance set, not yet committed
     row |-> "none"]            \* the transaction row: "put", "remove", not yet committed

(***************************************************************************)
(* Dates and periods.  A Date is [year, month, day, time]; the times of    *)
(* day told apart are the start of the day, one moment inside it, and its  *)
(* last millisecond.                                                       *)
(***************************************************************************)

\* Date.prototype.getTime, up to order: a < b iff getTime(a) < getTime(b)
getTime(d) ==
    LET ofDay == [t \in {"00:00:00.000", "12:00:00.000", "23:59:59.999"} |->
                     IF t = "00:00:00.000" THEN 0
                     ELSE IF t = "12:00:00.000" THEN 1 ELSE 2]
    IN  ((d.year * 12 + (d.month - 1)) * 31 + (d.day - 1)) * 3 + ofDay[d.time]

\* the functions of date-fns the storages import, in local time
dateFns ==
    LET Dates == [year : Nat, month : 1..12, day : 1..31,
                  time : {"00:00:00.000", "12:00:00.000", "23:59:59.999"}]
        leap(y) == (y % 4 = 0 /\ y % 100 # 0) \/ y % 400 = 0
        getDaysInMonth(y, m) ==
            IF m = 2 THEN (IF leap(y) THEN 29 ELSE 28)
            ELSE IF m \in {4, 6, 9, 11} THEN 30 ELSE 31
        \* Date.prototype.getDay: 0 is Sunday
        getDay(d) ==
            LET t == <<0, 3, 2, 5, 0, 3, 5, 1, 4, 6, 2, 4>>
                y == IF d.month < 3 THEN d.year - 1 ELSE d.year
            IN  (y + (y \div 4) - (y \div 100) + (y \div 400) + t[d.month] + d.day) % 7
        addMonths(d, n) ==
            LET total == d.year * 12 + (d.month - 1) + n
                y == total \div 12
                m == (total % 12) + 1
                length == getDaysInMonth(y, m)
            IN  [d EXCEPT !.year = y, !.month = m,
                          !.day = IF d.day > length THEN length ELSE d.day]
        \* at most one month is crossed: -28 <= n <= 28
        addDays(d, n) ==
            LET day == d.day + n
                before == addMonths([d EXCEPT !.day = 1], -1)
                after == addMonths([d EXCEPT !.day = 1], 1)
                length == getDaysInMonth(d.year, d.month)
            IN  IF day < 1
                THEN [before EXCEPT !.day = getDaysInMonth(before.year, before.month) + day]
                ELSE IF day > length THEN [after EXCEPT !.day = day - length]
                ELSE [d EXCEPT !.day = day]
    IN  [startOfMonth |-> [d \in Dates |-> [d EXCEPT !.day = 1, !.time = "00:00:00.000"]],
         endOfMonth |-> [d \in Dates |->
             [d EXCEPT !.day = getDaysInMonth(d.year, d.month), !.time = "23:59:59.999"]],
         subMonths |-> [d \in Dates, n \in Nat |-> addMonths(d, -n)],
         startOfYear |-> [d \in Dates |->
             [d EXCEPT !.month = 1, !.day = 1, !.time = "00:00:00.000"]],
         endOfYear |-> [d \in Dates |->
             [d EXCEPT !.month = 12, !.day = 31, !.time = "23:59:59.999"]],
         startOfWeek |-> [d \in Dates, weekStartsOn \in 0..6 |->
             LET day == getDay(d)
                 diff == (IF day < weekStartsOn THEN 7 ELSE 0) + day - weekStartsOn
             IN  [addDays(d, -diff) EXCEPT !.time = "00:00:00.000"]],
         endOfWeek |-> [d \in Dates, weekStartsOn \in 0..6 |->
             LET day == getDay(d)
                 diff == (IF day < weekStartsOn THEN -7 ELSE 0) + 6 - (day - weekStartsOn)
             IN  [addDays(d, diff) EXCEPT !.time = "23:59:59.999"]],
         subWeeks |-> [d \in Dates, n \in 0..4 |-> addDays(d, -(7 * n))],
         getDaysInMonth |-> [d \in Dates |-> getDaysInMonth(d.year, d.month)],
         addDays |-> [d \in Dates, n \in -28..28 |-> addDays(d, n)],
         isAfter |-> [d \in Dates, e \in Dates |-> getTime(d) > getTime(e)],
         isBefore |-> [d \in Dates, e \in Dates |-> getTime(d) < getTime(e)],
         isSameDay |-> [d \in Dates, e \in Dates |->
             d.year = e.year /\ d.month = e.month /\ d.day = e.day]]

\* The server runs in UTC, in a zone west of it (local time behind UTC) or in
\* a zone east of it (local time ahead), by less than half a day.

\* Date.prototype.toISOString: the local Date d as a UTC date and time
toISOString(d, zone) ==
    IF zone = "east" /\ d.time = "00:00:00.000"
    THEN [dateFns.addDays[d, -1] EXCEPT !.time = "12:00:00.000"]
    ELSE IF zone = "west" /\ d.time = "23:59:59.999"
    THEN [dateFns.addDays[d, 1] EXCEPT !.time = "12:00:00.000"]
    ELSE IF zone = "UTC" THEN d
    ELSE [d EXCEPT !.time = "12:00:00.000"]

\* new Date("YYYY-MM-DD"): midnight UTC of the calendar date, as a local Date
NewDate(date, zone) ==
    LET midnight == [year |-> date.year, month |-> date.month, day |-> date.day,
                     time |-> "00:00:00.000"]
    IN  IF zone = "UTC" THEN midnight
        ELSE IF zone = "east" THEN [midnight EXCEPT !.time = "12:00:00.000"]
        ELSE [dateFns.addDays[midnight, -1] EXCEPT !.time = "12:00:00.000"]

\* timePeriodSchema: the period values the routes accept
timePeriodSchema ==
    {"all", "this-week", "last-week", "this-month", "last-month", "this-year", "custom"}

\* the values of the clock: first and last days of months after a short, a
\* leap and a long month, and at the turn of the year
Nows ==
    {d \in [year : {2023, 2024}, month : {1, 3, 12}, day : {1, 31},
            time : {"00:00:00.000", "12:00:00.000", "23:59:59.999"}] :
        d.day <= dateFns.getDaysInMonth[d]}

\* customRange?: no element when the argument is undefined
CustomRanges ==
    {{}} \cup {{[startDate |-> s, endDate |-> e]} :
                   s \in {d \in Nows : d.year = 2023 /\ d.month = 3 /\ d.day = 1
                                         /\ d.time = "00:00:00.000"},
                   e \in {d \in Nows : d.year = 2024 /\ d.month = 3 /\ d.day = 31
                                         /\ d.time = "23:59:59.999"}}

\* SupabaseStorage.getDateRangeForPeriod with new Date() = n
SupabaseGetDateRangeForPeriod(period, customRange, n) ==
    LET epoch == [year |-> 1970, month |-> 1, day |-> 1, time |-> "00:00:00.000"]
        range(start, end) == [result |-> "ok", start |-> start, end |-> end]
    IN  IF period = "all" THEN range(epoch, n)
        ELSE IF period = "this-month" THEN range(dateFns.startOfMonth[n], n)
        ELSE IF period = "last-month"
        THEN range(dateFns.startOfMonth[dateFns.subMonths[n, 1]],
                   dateFns.endOfMonth[dateFns.subMonths[n, 1]])
        ELSE IF period = "this-week" THEN range(dateFns.startOfWeek[n, 1], n)
        ELSE IF period = "last-week"
        THEN range(dateFns.startOfWeek[dateFns.subWeeks[n, 1], 1],
                   dateFns.endOfWeek[dateFns.subWeeks[n, 1], 1])
        ELSE IF period = "this-year" THEN range(dateFns.startOfYear[n], n)
        ELSE IF period = "custom"
        THEN IF customRange = {} THEN range(epoch, n)
             ELSE LET r == CHOOSE r \in customRange : TRUE
                  IN  range(r.startDate, r.endDate)
        ELSE range(epoch, n)

\* MemStorage.getDateRangeForPeriod with new Date() = n
MemGetDateRangeForPeriod(period, customRange, n) ==
    LET range(start, end) == [result |-> "ok", start |-> start, end |-> end]
    IN  IF period = "this_week"
        THEN range(dateFns.startOfWeek[n, 1], dateFns.endOfWeek[n, 1])
        ELSE IF period = "this_month"
        THEN range(dateFns.startOfMonth[n], dateFns.endOfMonth[n])
        ELSE IF period = "last_month"
        THEN LET lastMonth == dateFns.subMonths[n, 1]
             IN  range(dateFns.startOfMonth[lastMonth], dateFns.endOfMonth[lastMonth])
        ELSE IF period = "this_year"
        THEN range(dateFns.startOfYear[n], dateFns.endOfYear[n])
        ELSE IF period = "custom"
        THEN IF customRange = {} THEN [result |-> "error", start |-> n, end |-> n]
             ELSE LET r == CHOOSE r \in customRange : TRUE
                  IN  range(r.startDate, r.endDate)
        ELSE range(dateFns.startOfMonth[n], dateFns.endOfMonth[n])

\* a resolver whose default is all time, as SupabaseStorage's is
DbGetDateRangeForPeriod_AllTime(period, customRange, n) ==
    IF period \in {"this_week", "this_month", "last_month", "this_year", "custom"}
    THEN MemGetDateRangeForPeriod(period, customRange, n)
    ELSE SupabaseGetDateRangeForPeriod("all", customRange, n)

\* DatabaseStorage.getDateRangeForPeriod with new Date() = n
DbGetDateRangeForPeriod(period, customRange, n) ==
    LET range(start, end) == [result |-> "ok", start |-> start, end |-> end]
    IN  IF period = "this_week"
        THEN range(dateFns.startOfWeek[n, 1], dateFns.endOfWeek[n, 1])
        ELSE IF period = "this_month"
        THEN range(dateFns.startOfMonth[n], dateFns.endOfMonth[n])
        ELSE IF period = "last_month"
        THEN LET lastMonth == dateFns.subMonths[n, 1]
             IN  range(dateFns.startOfMonth[lastMonth], dateFns.endOfMonth[lastMonth])
        ELSE IF period = "this_year"
        THEN range(dateFns.startOfYear[n], dateFns.endOfYear[n])
        ELSE IF period = "custom"
        THEN IF customRange = {} THEN [result |-> "error", start |-> n, end |-> n]
             ELSE LET r == CHOOSE r \in customRange : TRUE
                  IN  range(r.startDate, r.endDate)
        ELSE range(dateFns.startOfMonth[n], dateFns.endOfMonth[n])

getDateRangeForPeriod(i, period, customRange, n) ==
    IF i = "db" THEN DbGetDateRangeForPeriod(period, customRange, n)
    ELSE IF i = "mem" THEN MemGetDateRangeForPeriod(period, customRange, n)
    ELSE SupabaseGetDateRangeForPeriod(period, customRange, n)

(***************************************************************************)
(* Reports.  A stored date is a calendar date [year, month, day]; a report *)
(* returns the ids of the rows it selects, or the numbers it computes.     *)
(***************************************************************************)

\* sum(...) of SQL and reduce((total, x) => total + x, 0): the sum of f over ids
RECURSIVE Sum(_, _)
Sum(f, ids) ==
    IF ids = {} THEN 0
    ELSE LET x == CHOOSE y \in ids : TRUE
         IN  f[x] + Sum(f, ids \ {x})

\* t.date >= ${startDate.toISOString()} AND t.date <= ${endDate.toISOString()},
\* and between(transactions.date, ...): the parameters are read as dates
DateBetween(date, range, zone) ==
    LET day(x) == (x.year * 12 + (x.month - 1)) * 31 + (x.day - 1)
    IN  /\ day(date) >= day(toISOString(range.start, zone))
        /\ day(date) <= day(toISOString(range.end, zone))

\* DatabaseStorage.getTransactionsByDateRange: transactions JOIN accounts
DbGetTransactionsByDateRange(S, startDate, endDate, zone) ==
    {t \in DOMAIN S.transactions :
        /\ S.transactions[t].accountId \in DOMAIN S.accounts
        /\ DateBetween(S.transactions[t].date, [start |-> startDate, end |-> endDate],
                       zone)}

\* MemStorage.getTransactionsByDateRange over getTransactionsWithDetails
MemGetTransactionsByDateRange(S, startDate, endDate, zone) ==
    {t \in DOMAIN S.transactions :
        LET transactionDate == NewDate(S.transactions[t].date, zone)
        IN  /\ \/ dateFns.isAfter[transactionDate, startDate]
               \/ dateFns.isSameDay[transactionDate, startDate]
            /\ \/ dateFns.isBefore[transactionDate, endDate]
               \/ dateFns.isSameDay[transactionDate, endDate]}

\* DatabaseStorage.getTransactions: select().from(transactions); the ids of
\* the rows returned
DbGetTransactions(S) == DOMAIN S.transactions

\* DatabaseStorage.getTransactionsWithDetails: transactions JOIN accounts,
\* LEFT JOIN the income categories for an income and the expense categories
\* for an expense row; one entry per joined row, 0 for the NULL of a left
\* join without a match
DbGetTransactionsWithDetails(S) ==
    LET leftJoin(t, type, categories) ==
            IF S.transactions[t].type = type
                  /\ S.transactions[t].categoryId \in DOMAIN categories
            THEN {S.transactions[t].categoryId}
            ELSE {0}
        joined(t) ==
            {[id |-> t, a |-> a, ic |-> ic, ec |-> ec] :
                a \in SelectAccount(S, S.transactions[t].accountId),
                ic \in leftJoin(t, "income", S.incomeCategories),
                ec \in leftJoin(t, "expense", S.expenseCategories)}
    IN  UNION {joined(t) : t \in DOMAIN S.transactions}

\* parseISO("YYYY-MM-DD") of date-fns: midnight of the calendar date in local
\* time
parseISO(date) ==
    [year |-> date.year, month |-> date.month, day |-> date.day, time |-> "00:00:00.000"]

\* SupabaseStorage.getTransactionsByDateRange over getTransactionsWithDetails,
\* which drops no row
SupabaseGetTransactionsByDateRange(S, startDate, endDate) ==
    {t \in DOMAIN S.transactions :
        LET transactionDate == parseISO(S.transactions[t].date)
        IN  /\ dateFns.isAfter[transactionDate, startDate]
            /\ dateFns.isBefore[transactionDate, endDate]}

\* SupabaseStorage.getIncomeSum (type income) and getExpenseSum (type expense)
\* over getTransactionsByTimePeriod
SupabaseGetSum(S, type, period, customRange, n) ==
    LET getTransactionsByDateRange(range) ==
            SupabaseGetTransactionsByDateRange(S, range.start, range.end)
        rows == {t \in getTransactionsByDateRange(
                           SupabaseGetDateRangeForPeriod(period, customRange, n)) :
                    S.transactions[t].type = type}
    IN  Sum([t \in rows |-> S.transactions[t].amount], rows)

\* SupabaseStorage.getMonthlyData: for month 0..11, the transactions from
\* new Date(year, month, 1) to the end of that month, summed by type
SupabaseGetMonthlyData(S, year) ==
    LET startDate(month) == [year |-> year, month |-> month, day |-> 1,
                             time |-> "00:00:00.000"]
        rows(type, month) ==
            {t \in SupabaseGetTransactionsByDateRange(
                       S, startDate(month), dateFns.endOfMonth[startDate(month)]) :
                S.transactions[t].type = type}
        total(type, month) ==
            Sum([t \in rows(type, month) |-> S.transactions[t].amount], rows(type, month))
    IN  [m \in 1..12 |-> [month |-> m, income |-> total("income", m),
                          expense |-> total("expense", m)]]

\* DatabaseStorage.getIncomeSum (type income) and getExpenseSum (type expense)
DbGetSum(S, type, period, customRange, n, zone) ==
    LET range == DbGetDateRangeForPeriod(period, customRange, n)
        rows == {t \in DOMAIN S.transactions :
                    /\ S.transactions[t].type = type
                    /\ DateBetween(S.transactions[t].date, range, zone)}
    IN  Sum([t \in rows |-> S.transactions[t].amount], rows)

\* MemStorage.getIncomeSum (type income) and getExpenseSum (type expense)
MemGetSum(S, type, period, customRange, n, zone) ==
    LET getTransactionsByDateRange(range) ==
            MemGetTransactionsByDateRange(S, range.start, range.end, zone)
        rows == {t \in getTransactionsByDateRange(
                           MemGetDateRangeForPeriod(period, customRange, n)) :
                    S.transactions[t].type = type}
    IN  Sum([t \in rows |-> S.transactions[t].amount], rows)

\* ORDER BY sum DESC: the rows as a sequence, rows of equal sum in any order
RECURSIVE OrderBySumDesc(_)
OrderBySumDesc(rows) ==
    IF rows = {} THEN <<>>
    ELSE LET row == CHOOSE x \in rows : \A y \in rows : x.sum >= y.sum
         IN  <<row>> \o OrderBySumDesc(rows \ {row})

\* DatabaseStorage.getIncomeByCategorySum (type income) and
\* getExpenseByCategorySum (type expense): JOIN the categories of the type,
\* GROUP BY category, HAVING sum > 0, ORDER BY sum DESC
DbGetByCategorySum(S, type, period, customRange, n, zone) ==
    LET range == DbGetDateRangeForPeriod(period, customRange, n)
        categories == categoriesOf(S, type)
        rows == {t \in DOMAIN S.transactions :
                    /\ S.transactions[t].categoryId \in DOMAIN categories
                    /\ S.transactions[t].type = type
                    /\ DateBetween(S.transactions[t].date, range, zone)}
        groups == {[categoryId |-> S.transactions[t].categoryId,
                    categoryName |-> categories[S.transactions[t].categoryId].name,
                    sum |-> LET group == {u \in rows : S.transactions[u].categoryId =
                                                       S.transactions[t].categoryId}
                            IN  Sum([u \in group |-> S.transactions[u].amount], group)] :
                   t \in rows}
    IN  OrderBySumDesc({g \in groups : g.sum > 0})

\* MemStorage.getIncomeByCategorySum (type income) and getExpenseByCategorySum
\* (type expense): the transactions of the period, latest date first as
\* getTransactionsWithDetails sorts them, are added to a Map by categoryId;
\* the rows are the Map's values, in the order the categories were met
MemGetByCategorySum(S, type, period, customRange, n, zone) ==
    LET getTransactionsByDateRange(range) ==
            MemGetTransactionsByDateRange(S, range.start, range.end, zone)
        rows == {t \in getTransactionsByDateRange(
                           MemGetDateRangeForPeriod(period, customRange, n)) :
                    S.transactions[t].type = type}
        day(t) == (S.transactions[t].date.year * 12 + (S.transactions[t].date.month - 1)) * 31
                      + (S.transactions[t].date.day - 1)
        RECURSIVE categoryMap(_)
        categoryMap(todo) ==
            IF todo = {} THEN <<>>
            ELSE LET t == CHOOSE x \in todo : \A y \in todo :
                              day(x) > day(y) \/ (day(x) = day(y) /\ x <= y)
                     categoryId == S.transactions[t].categoryId
                     group == {u \in todo : S.transactions[u].categoryId = categoryId}
                 IN  <<[categoryId |-> categoryId,
                        categoryName |->
                            IF categoryId \in DOMAIN categoriesOf(S, type)
                            THEN categoriesOf(S, type)[categoryId].name
                            ELSE "Unknown Category",
                        sum |-> Sum([u \in group |-> S.transactions[u].amount], group)]>>
                     \o categoryMap(todo \ group)
    IN  categoryMap(rows)

\* DatabaseStorage.getMonthlyData: generate_series(1, 12) LEFT JOIN the sums
\* by EXTRACT(MONTH FROM date::timestamp) of the year
DbGetMonthlyData(S, year) ==
    LET rows(type, month) ==
            {t \in DOMAIN S.transactions :
                /\ S.transactions[t].type = type
                /\ S.transactions[t].date.year = year
                /\ S.transactions[t].date.month = month}
        total(type, month) ==
            Sum([t \in rows(type, month) |-> S.transactions[t].amount], rows(type, month))
    IN  [m \in 1..12 |-> [month |-> m, income |-> total("income", m),
                          expense |-> total("expense", m)]]

\* MemStorage.getMonthlyData: new Date(transaction.date), getFullYear(),
\* getMonth(); income when the type is income, else expense
MemGetMonthlyData(S, year, zone) ==
    LET rows(income, month) ==
            {t \in DOMAIN S.transactions :
                LET transactionDate == NewDate(S.transactions[t].date, zone)
                IN  /\ transactionDate.year = year
                    /\ transactionDate.month = month
                    /\ (S.transactions[t].type = "income") = income}
        total(income, month) ==
            Sum([t \in rows(income, month) |-> S.transactions[t].amount],
                rows(income, month))
    IN  [i \in 1..12 |-> [month |-> i, income |-> total(TRUE, i),
                          expense |-> total(FALSE, i)]]

\* getTotalBalance: sum(balance) || 0 (DatabaseStorage), reduce over the
\* accounts (MemStorage)
getTotalBalance(i, S) ==
    Sum([a \in DOMAIN S.accounts |-> S.accounts[a].balance], DOMAIN S.accounts)

\* a report called on storage i, with the clock at n
report(i, S, call, n, zone) ==
    IF call.op = "getTransactionsByDateRange"
    THEN IF i = "db"
         THEN DbGetTransactionsByDateRange(S, call.startDate, call.endDate, zone)
         ELSE MemGetTransactionsByDateRange(S, call.startDate, call.endDate, zone)
    ELSE IF call.op \in {"getIncomeSum", "getExpenseSum"}
    THEN LET type == IF call.op = "getIncomeSum" THEN "income" ELSE "expense"
         IN  IF i = "db"
             THEN DbGetSum(S, type, call.period, call.customRange, n, zone)
             ELSE MemGetSum(S, type, call.period, call.customRange, n, zone)
    ELSE IF call.op \in {"getIncomeByCategorySum", "getExpenseByCategorySum"}
    THEN LET type == IF call.op = "getIncomeByCategorySum" THEN "income" ELSE "expense"
         IN  IF i = "db"
             THEN DbGetByCategorySum(S, type, call.period, call.customRange, n, zone)
             ELSE MemGetByCategorySum(S, type, call.period, call.customRange, n, zone)
    ELSE IF call.op = "getMonthlyData"
    THEN IF i = "db" THEN DbGetMonthlyData(S, call.year)
         ELSE MemGetMonthlyData(S, call.year, zone)
    ELSE getTotalBalance(i, S)

StartIn(i, S, zone) ==
    /\ impl = i
    /\ timezone = zone
    /\ accounts = S.accounts
    /\ incomeCategories = S.incomeCategories
    /\ expenseCategories = S.expenseCategories
    /\ transactions = S.transactions
    /\ accountIdCounter = S.accountIdCounter
    /\ incomeCategoryIdCounter = S.incomeCategoryIdCounter
    /\ expenseCategoryIdCounter = S.expenseCategoryIdCounter
    /\ transactionIdCounter = S.transactionIdCounter
    /\ initialBalance = [a \in DOMAIN S.accounts |-> S.accounts[a].balance]
    /\ last = NoCall
    /\ now = CHOOSE n \in Nows : \A m \in Nows : getTime(n) <= getTime(m)
    /\ resolved = [period |-> "none", customRange |-> {}, at |-> now,
                   result |-> "none", start |-> now, end |-> now]
    /\ conn = [c \in Connections |-> Idle]

StartWith(i, S) == StartIn(i, S, "UTC") /\ pending = <<>>

vars == <<impl, accounts, incomeCategories, expenseCategories, transactions,
          accountIdCounter, incomeCategoryIdCounter, expenseCategoryIdCounter,
          transactionIdCounter, initialBalance, last, now, timezone, resolved,
          conn, pending>>

(***************************************************************************)
(* Spec: the ledger.  Either implementation, started with its accounts and  *)
(* categories, serves createTransaction, updateTransaction,                 *)
(* deleteTransaction and deleteAccount calls one after the other.  The      *)
(* transactions carry a category id that both kinds have; the patches       *)
(* supply any of amount, type and accountId.                                *)
(***************************************************************************)
DbLedgerTransactions ==
    TransactionsOf(Amounts, AccountIdsOf("db"), {SharedCategoryIdOf("db")})
MemLedgerTransactions ==
    TransactionsOf(Amounts, AccountIdsOf("mem"), {SharedCategoryIdOf("mem")})
DbLedgerPatches == BalancePatchesOf("db")
MemLedgerPatches == BalancePatchesOf("mem")

LedgerTransactions == IF impl = "db" THEN DbLedgerTransactions ELSE MemLedgerTransactions
LedgerPatches == IF impl = "db" THEN DbLedgerPatches ELSE MemLedgerPatches

Init == \E i \in {"db", "mem"}, b \in InitialBalances : StartWith(i, StartStore(i, b))

Next ==
    \/ \E t \in LedgerTransactions : CreateTransaction(t)
    \/ \E id \in TransactionIdInputs, patch \in LedgerPatches : UpdateTransaction(id, patch)
    \/ \E id \in TransactionIdInputs : DeleteTransaction(id)
    \/ \E id \in AccountIdInputs : DeleteAccount(id)

Spec == Init /\ [][Next]_vars

(***************************************************************************)
(* SpecAccountRows: the ledger over accounts that carry every column of the *)
(* accounts table: name, type, description and balance.  The calls create   *)
(* income and expense transactions of amount 1 or 2, patch the amount and  *)
(* move transactions between accounts.                                      *)
(***************************************************************************)
\* the n-th account of the starting store, as insertAccountSchema takes it
AccountRow(n, b) ==
    [name |-> StartName(n), type |-> IF n % 2 = 1 THEN "bank" ELSE "cash",
     description |-> StartName(n + 1), balance |-> b]

RECURSIVE WithAccountRows(_, _, _, _)
WithAccountRows(i, S, n, b) ==
    IF n = 0 THEN S
    ELSE createAccount(i, WithAccountRows(i, S, n - 1, b), AccountRow(n, b)).store

InitAccountRows ==
    \E i \in {"db", "mem"}, b \in InitialBalances :
        StartWith(i, WithCategories(i,
                         WithCategories(i, WithAccountRows(i, Fresh(i), MaxAccounts, b),
                                        "income", MaxCategories),
                         "expense", MaxCategories))

NextAccountRows ==
    \/ \E t \in {t \in TransactionsOf({1, 2}, AccountIdsOf(impl), {SharedCategoryIdOf(impl)}) :
                      t.type \in {"income", "expense"}} :
           CreateTransaction(t)
    \/ \E id \in TransactionIdInputs,
           patch \in Extend(Extend({Rows0}, "amount", {1, 2}), "accountId",
                            AccountIdsOf(impl) \ {0}) :
           UpdateTransaction(id, patch)
    \/ \E id \in TransactionIdInputs : DeleteTransaction(id)

SpecAccountRows == InitAccountRows /\ [][NextAccountRows]_vars

(***************************************************************************)
(* SpecCreate: MemStorage serving createTransaction with every choice of    *)
(* amount, type, account id and category id, deleteTransaction and          *)
(* deleteAccount.                                                           *)
(***************************************************************************)
CreateInputs == TransactionsOf(Amounts, AccountIdsOf("mem"), CategoryIdsOf("mem"))

InitCreate == \E b \in InitialBalances : StartWith("mem", StartStore("mem", b))

NextCreate ==
    \/ \E t \in CreateInputs : CreateTransaction(t)
    \/ \E id \in TransactionIdInputs : DeleteTransaction(id)
    \/ \E id \in AccountIdInputs : DeleteAccount(id)

SpecCreate == InitCreate /\ [][NextCreate]_vars

(***************************************************************************)
(* SpecCategoryGuard: transactions of every type and category id on the     *)
(* first account, and the deletes of categories.                            *)
(***************************************************************************)
DbGuardInputs ==
    TransactionsOf({1}, {Fresh("db").accountIdCounter}, CategoryIdsOf("db"))
MemGuardInputs ==
    TransactionsOf({1}, {Fresh("mem").accountIdCounter}, CategoryIdsOf("mem"))

GuardInputs == IF impl = "db" THEN DbGuardInputs ELSE MemGuardInputs

NextCategoryGuard ==
    \/ \E t \in GuardInputs : CreateTransaction(t)
    \/ \E id \in TransactionIdInputs : DeleteTransaction(id)
    \/ \E id \in CategoryIdInputs : DeleteIncomeCategory(id)
    \/ \E id \in CategoryIdInputs : DeleteExpenseCategory(id)

SpecCategoryGuard == Init /\ [][NextCategoryGuard]_vars

(***************************************************************************)
(* SpecCategories: the categories of both kinds, created and renamed in a   *)
(* store that has none.                                                     *)
(***************************************************************************)
InitCategories == \E i \in {"db", "mem"} : StartWith(i, Fresh(i))

NextCategories ==
    \/ \E name \in Names : CreateIncomeCategory([name |-> name])
    \/ \E name \in Names : CreateExpenseCategory([name |-> name])
    \/ \E id \in CategoryIdInputs, patch \in NamePatches : UpdateIncomeCategory(id, patch)
    \/ \E id \in CategoryIdInputs, patch \in NamePatches : UpdateExpenseCategory(id, patch)

SpecCategories == InitCategories /\ [][NextCategories]_vars

(***************************************************************************)
(* SpecDetails: transactions of every amount, type and account on one       *)
(* category, created, deleted, and updated with patches that supply none    *)
(* of amount, type and accountId: the empty patch stands for a patch of     *)
(* description or date, the others supply a categoryId.                     *)
(***************************************************************************)
DetailTransactions ==
    [i \in {"db", "mem"} |->
        TransactionsOf(Amounts, AccountIdsOf(i), {SharedCategoryIdOf(i)})]

DetailPatches ==
    [i \in {"db", "mem"} |-> Extend({Rows0}, "categoryId", {0} \cup CategoryIdsOf(i))]

NextDetails ==
    \/ \E t \in DetailTransactions[impl] : CreateTransaction(t)
    \/ \E id \in TransactionIdInputs, patch \in DetailPatches[impl] : UpdateTransaction(id, patch)
    \/ \E id \in TransactionIdInputs : DeleteTransaction(id)

SpecDetails == Init /\ [][NextDetails]_vars

(***************************************************************************)
(* SpecAccounts: the accounts updated through PATCH /accounts/:id, whose     *)
(* body is any subset of the account's columns, next to transactions being  *)
(* created and deleted.  The empty patch stands for a patch of name, type   *)
(* or description.                                                          *)
(***************************************************************************)
AccountPatches == Extend({Rows0}, "balance", Amounts \cup InitialBalances)

NextAccounts ==
    \/ \E id \in AccountIdInputs, account \in AccountPatches : UpdateAccount(id, account)
    \/ \E t \in DetailTransactions[impl] : CreateTransaction(t)
    \/ \E id \in TransactionIdInputs : DeleteTransaction(id)

SpecAccounts == Init /\ [][NextAccounts]_vars

(***************************************************************************)
(* SpecConcurrent: DatabaseStorage serving requests that overlap at the     *)
(* store.  Each connection runs the statements of its call one at a time;   *)
(* between two statements the other connection may run.  The store          *)
(* variables hold the committed rows.  Inside db.transaction the rows a     *)
(* connection wrote stay with the connection until it commits (read         *)
(* committed: a statement sees the rows committed before it starts), an     *)
(* updated row is locked until the commit, and a serial column hands out    *)
(* its number at once.  A statement outside db.transaction commits by       *)
(* itself.                                                                  *)
(***************************************************************************)
\* another connection holds the lock of account row a
RowLocked(c, a) == \E d \in Connections \ {c} : a \in conn[d].wrote

Accepts(c) == conn[c].pc = "idle" /\ conn[c].calls < MaxCalls

Called(c, op) == [Idle EXCEPT !.calls = conn[c].calls + 1, !.op = op]

Returned(c, result) ==
    [conn[c] EXCEPT !.pc = "idle", !.result = result, !.found = {}, !.wrote = {},
                    !.writes = Rows0, !.todo = <<>>, !.row = "none"]

\* what the connection sees of an account's balance: its own write, or else
\* the committed row
ViewBalance(c, a) ==
    IF a \in DOMAIN conn[c].writes THEN conn[c].writes[a] ELSE accounts[a].balance

\* one balance adjustment: the account to select and the change to add
Adjustment(accountId, change) == [accountId |-> accountId, change |-> change]

\* createTransaction: db.transaction(...) and tx.insert(transactions)
TxInsertTransaction(c, t) ==
    /\ Accepts(c)
    /\ transactionIdCounter' = transactionIdCounter + 1
    /\ conn' = [conn EXCEPT ![c] =
           [Called(c, "createTransaction") EXCEPT
               !.pc = "select", !.t = t, !.id = transactionIdCounter, !.row = "put",
               !.todo = <<Adjustment(t.accountId, DbBalanceChange(t.type, t.amount))>>]]
    /\ UNCHANGED <<impl, timezone, pending, now, resolved, accounts, incomeCategories, expenseCategories, transactions,
                   accountIdCounter, incomeCategoryIdCounter,
                   expenseCategoryIdCounter, initialBalance, last>>

\* the statements after the balance adjustments: createTransaction has none,
\* updateTransaction and deleteTransaction write the transaction row
AfterAdjustments(c, todo) ==
    IF todo # <<>> THEN "select"
    ELSE IF conn[c].op = "createTransaction" THEN "commit" ELSE "write"

\* updateTransaction / deleteTransaction: db.transaction(...) and
\* tx.select().from(transactions).where(eq(transactions.id, id)); without the
\* row the callback returns at once
TxSelectTransaction(c, op, id, patch) ==
    /\ conn[c].pc = "idle"
    /\ LET call == [Idle EXCEPT !.calls = conn[c].calls, !.op = op, !.id = id,
                                !.patch = patch]
           existing == transactions[id]
           old == Adjustment(existing.accountId,
                             DbOldBalanceChange(existing.type, existing.amount))
           new == Adjustment(DbNewAccountId(existing, patch),
                             DbBalanceChange(DbNewType(existing, patch),
                                             DbNewAmount(existing, patch)))
           todo == IF op = "deleteTransaction" THEN <<old>>
                   ELSE IF DbTouchesBalance(patch) THEN <<old, new>>
                   ELSE <<>>
       IN  conn' = [conn EXCEPT ![c] =
               IF id \notin DOMAIN transactions
               THEN [call EXCEPT !.result =
                        IF op = "deleteTransaction" THEN "false" ELSE "undefined"]
               ELSE [call EXCEPT !.t = existing, !.todo = todo,
                                 !.pc = IF todo # <<>> THEN "select" ELSE "write"]]
    /\ UNCHANGED <<impl, timezone, pending, now, resolved, storeVars, initialBalance, last>>

\* tx.select().from(accounts).where(eq(accounts.id, ...))
TxSelectAccount(c) ==
    /\ conn[c].pc = "select"
    /\ LET target == Head(conn[c].todo).accountId
           found == SelectAccount(Store, target)
       IN  conn' = [conn EXCEPT ![c] =
               IF found = {}
               THEN [@ EXCEPT !.todo = Tail(@),
                              !.pc = AfterAdjustments(c, Tail(conn[c].todo))]
               ELSE [@ EXCEPT !.pc = "update", !.found = found,
                              !.balance = ViewBalance(c, target)]]
    /\ UNCHANGED <<impl, timezone, pending, now, resolved, storeVars, initialBalance, last>>

\* an update of the balance that does not wait for the commit
TxUpdateBalance_Autocommit(c) ==
    /\ conn[c].pc = "update"
    /\ accounts' = SetBalance(Store, Head(conn[c].todo).accountId,
                              conn[c].balance + Head(conn[c].todo).change).accounts
    /\ conn' = [conn EXCEPT ![c] =
           [@ EXCEPT !.pc = AfterAdjustments(c, Tail(conn[c].todo)), !.todo = Tail(@)]]
    /\ UNCHANGED <<impl, timezone, pending, now, resolved, incomeCategories, expenseCategories, transactions,
                   accountIdCounter, incomeCategoryIdCounter,
                   expenseCategoryIdCounter, transactionIdCounter,
                   initialBalance, last>>

\* if (account) tx.update(accounts).set({ balance: account.balance + change });
\* the statement waits for the lock of the row
TxUpdateBalance(c) ==
    /\ conn[c].pc = "update"
    /\ ~RowLocked(c, Head(conn[c].todo).accountId)
    /\ LET target == Head(conn[c].todo).accountId
           hit == SelectAccount(Store, target)
       IN  conn' = [conn EXCEPT ![c] =
               [@ EXCEPT !.pc = AfterAdjustments(c, Tail(conn[c].todo)),
                         !.todo = Tail(@),
                         !.wrote = @ \cup hit,
                         !.writes = IF hit = {} THEN @
                                    ELSE (target :> (conn[c].balance
                                                      + Head(conn[c].todo).change)) @@ @]]
    /\ UNCHANGED <<impl, timezone, pending, now, resolved, storeVars, initialBalance, last>>

\* another connection holds the lock of transaction row id
TransactionLocked(c, id) ==
    \E d \in Connections \ {c} : conn[d].row # "none" /\ conn[d].id = id

\* updateTransaction: tx.update(transactions).set(transactionData).returning(),
\* and new Date(updatedTransaction.date) throws without the row;
\* deleteTransaction: tx.delete(transactions).returning(), false without the row
TxWriteTransaction(c) ==
    /\ conn[c].pc = "write"
    /\ ~TransactionLocked(c, conn[c].id)
    /\ conn' = [conn EXCEPT ![c] =
           IF conn[c].op = "deleteTransaction"
           THEN IF conn[c].id \in DOMAIN transactions
                THEN [@ EXCEPT !.pc = "commit", !.row = "remove", !.result = "true"]
                ELSE [@ EXCEPT !.pc = "commit", !.result = "false"]
           ELSE IF conn[c].id \in DOMAIN transactions
                THEN [@ EXCEPT !.pc = "commit", !.row = "put", !.result = "ok",
                               !.t = Merge(transactions[conn[c].id], conn[c].patch)]
                ELSE Returned(c, "error")]
    /\ UNCHANGED <<impl, timezone, pending, now, resolved, storeVars, initialBalance, last>>

\* a statement of the db.transaction fails (the connection is lost, the store
\* rejects it): the error leaves the callback and db.transaction rolls back
TxFail(c) ==
    /\ conn[c].pc \in {"select", "update", "write", "commit"}
    /\ conn' = [conn EXCEPT ![c] = Returned(c, "error")]
    /\ UNCHANGED <<impl, timezone, pending, now, resolved, storeVars, initialBalance, last>>

\* the callback returns and db.transaction commits
TxCommit(c) ==
    /\ conn[c].pc = "commit"
    /\ transactions' =
           IF conn[c].row = "put" THEN Put(transactions, conn[c].id, conn[c].t)
           ELSE IF conn[c].row = "remove" THEN Remove(transactions, conn[c].id)
           ELSE transactions
    /\ accounts' = [a \in DOMAIN accounts |->
           IF a \in DOMAIN conn[c].writes
           THEN [accounts[a] EXCEPT !.balance = conn[c].writes[a]]
           ELSE accounts[a]]
    /\ conn' = [conn EXCEPT ![c] =
           Returned(c, IF conn[c].op = "createTransaction" THEN "ok" ELSE conn[c].result)]
    /\ UNCHANGED <<impl, timezone, pending, now, resolved, incomeCategories, expenseCategories, accountIdCounter,
                   incomeCategoryIdCounter, expenseCategoryIdCounter,
                   transactionIdCounter, initialBalance, last>>

\* deleteAccount: select count(*) ... where account_id = id, and the throw
CountTransactionsOfAccount(c, id) ==
    /\ Accepts(c)
    /\ conn' = [conn EXCEPT ![c] =
           IF CountByAccount(Store, id) > 0
           THEN [Called(c, "deleteAccount") EXCEPT !.id = id, !.result = "error"]
           ELSE [Called(c, "deleteAccount") EXCEPT !.id = id, !.pc = "delete"]]
    /\ UNCHANGED <<impl, timezone, pending, now, resolved, storeVars, initialBalance, last>>

\* deleteAccount: delete(accounts).where(eq(accounts.id, id)).returning(); the
\* statement waits for the lock of the row
DeleteAccountRow(c) ==
    /\ conn[c].pc = "delete"
    /\ ~RowLocked(c, conn[c].id)
    /\ accounts' = Remove(accounts, conn[c].id)
    /\ conn' = [conn EXCEPT ![c] =
           Returned(c, IF conn[c].id \in DOMAIN accounts THEN "true" ELSE "false")]
    /\ UNCHANGED <<impl, timezone, pending, now, resolved, incomeCategories, expenseCategories, transactions,
                   accountIdCounter, incomeCategoryIdCounter,
                   expenseCategoryIdCounter, transactionIdCounter,
                   initialBalance, last>>

\* createIncomeCategory / createExpenseCategory: the select by lower(name), and
\* the throw
SelectCategoryByName(c, kind, category) ==
    /\ Accepts(c)
    /\ conn' = [conn EXCEPT ![c] =
           IF SelectByLowerName(categoriesOf(Store, kind), category.name, 0) # {}
           THEN [Called(c, "createCategory") EXCEPT
                    !.kind = kind, !.name = category.name, !.result = "error"]
           ELSE [Called(c, "createCategory") EXCEPT
                    !.kind = kind, !.name = category.name, !.pc = "insert"]]
    /\ UNCHANGED <<impl, timezone, pending, now, resolved, storeVars, initialBalance, last>>

\* createIncomeCategory / createExpenseCategory: insert(table).values(category)
InsertCategoryRow(c) ==
    /\ conn[c].pc = "insert"
    /\ LET r == InsertCategory(Store, conn[c].kind, [name |-> conn[c].name])
       IN  /\ incomeCategories' = r.store.incomeCategories
           /\ expenseCategories' = r.store.expenseCategories
           /\ incomeCategoryIdCounter' = r.store.incomeCategoryIdCounter
           /\ expenseCategoryIdCounter' = r.store.expenseCategoryIdCounter
           /\ conn' = [conn EXCEPT ![c] = [Returned(c, r.result) EXCEPT !.id = r.id]]
    /\ UNCHANGED <<impl, timezone, pending, now, resolved, accounts, transactions, accountIdCounter,
                   transactionIdCounter, initialBalance, last>>

\* the transactions, account ids and names the overlapping requests carry
ConcurrentTransactions ==
    [amount : {1, 2}, type : {"income", "expense"},
     accountId : Ids(1, MaxAccounts), categoryId : {1}]

ConcurrentNames == {<<"A">>, <<"a">>}

InitConcurrent ==
    \E b \in InitialBalances : StartWith("db", WithAccounts("db", DbFresh, MaxAccounts, b))

NextConcurrent ==
    \E c \in Connections :
        \/ \E t \in ConcurrentTransactions : TxInsertTransaction(c, t)
        \/ TxSelectAccount(c)
        \/ TxUpdateBalance(c)
        \/ TxCommit(c)
        \/ \E id \in Ids(1, MaxAccounts) : CountTransactionsOfAccount(c, id)
        \/ DeleteAccountRow(c)
        \/ \E kind \in {"income", "expense"}, name \in ConcurrentNames :
               SelectCategoryByName(c, kind, [name |-> name])
        \/ InsertCategoryRow(c)

SpecConcurrent == InitConcurrent /\ [][NextConcurrent]_vars

\* ---- one connection writing through db.transaction, read by the others ----

AtomicPatches ==
    {Rows0, "amount" :> 2, "type" :> "expense", "accountId" :> MaxAccounts,
     "categoryId" :> 2}

NextAtomic ==
    \/ \E t \in ConcurrentTransactions : TxInsertTransaction("c1", t)
    \/ \E op \in {"updateTransaction", "deleteTransaction"},
          id \in Ids(1, MaxCalls), patch \in AtomicPatches :
           TxSelectTransaction("c1", op, id, IF op = "deleteTransaction" THEN Rows0 ELSE patch)
    \/ TxSelectAccount("c1")
    \/ TxUpdateBalance("c1")
    \/ TxWriteTransaction("c1")
    \/ TxFail("c1")
    \/ TxCommit("c1")

SpecAtomic == InitConcurrent /\ [][NextAtomic]_vars

\* ---- deleteTransaction calls that overlap each other ----

\* createTransaction calls run alone, while no other call is under way; the
\* deleteTransaction calls of the two connections overlap as they like
NextOverlappingDeletes ==
    \/ \E t \in ConcurrentTransactions :
           /\ \A c \in Connections : conn[c].pc = "idle"
           /\ CreateTransaction(t)
    \/ \E c \in Connections :
           \/ \E id \in Ids(1, MaxTransactions) :
                  TxSelectTransaction(c, "deleteTransaction", id, Rows0)
           \/ TxSelectAccount(c)
           \/ TxUpdateBalance(c)
           \/ TxWriteTransaction(c)
           \/ TxCommit(c)

SpecOverlappingDeletes == InitConcurrent /\ [][NextOverlappingDeletes]_vars

\* ---- the period resolvers under a running clock ----

\* a period query resolves its period: const now = new Date(); switch (period)
GetDateRangeForPeriod(period, customRange) ==
    /\ resolved' = [period |-> period, customRange |-> customRange, at |-> now] @@
                       getDateRangeForPeriod(impl, period, customRange, now)
    /\ UNCHANGED <<impl, timezone, pending, storeVars, initialBalance, last, now, conn>>

\* time passes
Advance(n) ==
    /\ getTime(n) > getTime(now)
    /\ now' = n
    /\ UNCHANGED <<impl, timezone, pending, storeVars, initialBalance, last, resolved, conn>>

InitPeriod == \E i \in {"db", "mem", "supabase"} : StartWith(i, DbFresh)

NextPeriod ==
    \/ \E period \in timePeriodSchema \cup {"this_week", "this_month", "last_month", "this_year"},
          customRange \in CustomRanges : GetDateRangeForPeriod(period, customRange)
    \/ \E n \in Nows : Advance(n)

SpecPeriod == InitPeriod /\ [][NextPeriod]_vars

\* ---- reports over dated transactions ----

\* the transactions a report run records
MaxReported == 2

\* the last day of a year and the first and last day of a month, with the first
\* day after it
ReportDates ==
    {[year |-> 2022, month |-> 12, day |-> 31], [year |-> 2023, month |-> 1, day |-> 1],
     [year |-> 2023, month |-> 1, day |-> 31], [year |-> 2023, month |-> 2, day |-> 1]}

\* transactions with a date; DatabaseStorage also takes an account or a
\* category that does not exist, MemStorage refuses them
DatedTransactions ==
    [i \in {"db", "mem"} |->
        [amount : {1, 2}, type : {"income", "expense"},
         accountId : Ids(Fresh(i).accountIdCounter, MaxAccounts),
         categoryId : IncomeCategoryIdsOf(i), date : ReportDates]
        \cup (IF i = "mem" THEN {}
              ELSE [amount : {1}, type : {"income", "expense"}, accountId : {0},
                    categoryId : {DbFresh.incomeCategoryIdCounter}, date : ReportDates]
                   \cup [amount : {1}, type : {"income", "expense"},
                         accountId : {DbFresh.accountIdCounter}, categoryId : {0},
                         date : ReportDates])]

\* the reports called: a month from its first to its last moment, the same
\* month from noon to noon as a custom range, and two years
ReportCalls ==
    LET at(date, time) == [year |-> date.year, month |-> date.month, day |-> date.day,
                           time |-> time]
        first == [year |-> 2023, month |-> 1, day |-> 1]
        final == [year |-> 2023, month |-> 1, day |-> 31]
        noons == [startDate |-> at(first, "12:00:00.000"),
                  endDate |-> at(final, "12:00:00.000")]
    IN  [i \in {"db", "mem"} |->
            {[op |-> "getTransactionsByDateRange", startDate |-> at(first, "00:00:00.000"),
              endDate |-> at(final, "23:59:59.999")],
             [op |-> "getTransactionsByDateRange", startDate |-> noons.startDate,
              endDate |-> noons.endDate],
             [op |-> "getTotalBalance"]}
            \cup [op : {"getMonthlyData"}, year : {2022, 2023}]
            \cup [op : {"getIncomeSum", "getExpenseSum", "getIncomeByCategorySum",
                        "getExpenseByCategorySum"},
                  period : {"this-month"}, customRange : {{}}]
            \cup [op : {"getIncomeSum", "getExpenseSum"}, period : {"custom"},
                  customRange : {{noons}}]]

RecordTransaction(t) ==
    /\ transactionIdCounter < Fresh(impl).transactionIdCounter + MaxReported
    /\ Complete("createTransaction", createTransaction(impl, Store, t))

\* a report runs; it reads the store and changes nothing
Report(call) ==
    /\ last' = [op |-> call.op, id |-> 0, call |-> call,
                result |-> report(impl, Store, call, now, timezone)]
    /\ UNCHANGED <<impl, timezone, pending, storeVars, initialBalance, now, resolved, conn>>

InitReports ==
    \E i \in {"db", "mem"}, zone \in {"UTC", "west", "east"} :
        StartIn(i, StartStore(i, InitialBalance), zone) /\ pending = <<>>

NextReports ==
    \/ \E t \in DatedTransactions[impl] : RecordTransaction(t)
    \/ \E call \in ReportCalls[impl] : Report(call)

SpecReports == InitReports /\ [][NextReports]_vars

(***************************************************************************)
(* SpecSeeds: MemStorage from the return of its constructor.               *)
(* initializeDefaultData has created the accounts and the categories and   *)
(* has called createTransaction for every sample transaction without       *)
(* awaiting it: each call ran to its first await and the calls resume in    *)
(* the order they were suspended.  Amounts are in cents.                   *)
(***************************************************************************)
\* the accounts and categories of initializeDefaultData
MemSeedStore ==
    [MemFresh EXCEPT
        !.accounts = 1 :> [balance |-> 628000] @@ 2 :> [balance |-> 420000]
                     @@ 3 :> [balance |-> 210000],
        !.incomeCategories = [c \in 1..MemSeedIncomeCategories |-> [name |-> StartName(c)]],
        !.expenseCategories = [c \in 1..MemSeedExpenseCategories |-> [name |-> StartName(c)]],
        !.transactionIdCounter = 1]

sampleTransactions ==
    <<[amount |-> 8540, type |-> "expense", accountId |-> 1, categoryId |-> 1],
      [amount |-> 275000, type |-> "income", accountId |-> 1, categoryId |-> 1],
      [amount |-> 120000, type |-> "expense", accountId |-> 2, categoryId |-> 2],
      [amount |-> 1499, type |-> "expense", accountId |-> 1, categoryId |-> 4],
      [amount |-> 4500, type |-> "expense", accountId |-> 3, categoryId |-> 3]>>

\* MemStorage.createTransaction up to its first await: getAccount has read the
\* account, or found none
MemBeginCreateTransaction(S, t) ==
    [pc |-> "account", t |-> t,
     account |-> {[id |-> a, balance |-> S.accounts[a].balance] :
                     a \in {t.accountId} \cap DOMAIN S.accounts},
     category |-> {}]

\* the call resumes and runs to its next await, or to its end: r.call is the
\* call suspended again, r.store the store it leaves
MemResumeCreateTransaction(S, call) ==
    IF call.pc = "account"
    THEN IF call.account = {} \/ call.t.type \notin {"income", "expense"}
         THEN [store |-> S, result |-> "error", id |-> 0, call |-> <<>>]
         ELSE [store |-> S, result |-> "pending", id |-> 0,
               call |-> <<[call EXCEPT !.pc = "category",
                             !.category = {call.t.categoryId}
                                 \cap DOMAIN categoriesOf(S, call.t.type)]>>]
    ELSE IF call.category = {}
    THEN [store |-> S, result |-> "error", id |-> 0, call |-> <<>>]
    ELSE LET id == S.transactionIdCounter
             account == CHOOSE a \in call.account : TRUE
             S1 == [S EXCEPT !.transactions = Put(@, id, call.t),
                             !.transactionIdCounter = @ + 1]
         IN  [store |-> MemUpdateAccount(S1, account.id,
                            [balance |-> MemApply(account.balance, call.t.type,
                                                  call.t.amount)]),
              result |-> "ok", id |-> id, call |-> <<>>]

\* a caller starts createTransaction and does not await it
BeginCreateTransaction(t) ==
    /\ Len(pending) + Cardinality(DOMAIN transactions) < MemSeedTransactions + MaxCalls
    /\ pending' = Append(pending, MemBeginCreateTransaction(Store, t))
    /\ UNCHANGED <<impl, timezone, storeVars, initialBalance, last, now, resolved, conn>>

\* the call suspended first resumes
ResumeCreateTransaction ==
    /\ pending # <<>>
    /\ LET r == MemResumeCreateTransaction(Store, Head(pending))
       IN  /\ pending' = Tail(pending) \o r.call
           /\ accounts' = r.store.accounts
           /\ transactions' = r.store.transactions
           /\ transactionIdCounter' = r.store.transactionIdCounter
           /\ last' = IF r.result = "pending" THEN last
                      ELSE [op |-> "createTransaction", id |-> r.id, result |-> r.result]
    /\ UNCHANGED <<impl, timezone, incomeCategories, expenseCategories, accountIdCounter,
                   incomeCategoryIdCounter, expenseCategoryIdCounter, initialBalance,
                   now, resolved, conn>>

\* transactions a caller adds while the sample transactions are being stored
SeedTimeTransactions ==
    [amount : {100, 200}, type : Types, accountId : 0..MemSeedAccounts,
     categoryId : {1, MemSeedExpenseCategories}]

InitSeeds ==
    /\ StartIn("mem", MemSeedStore, "UTC")
    /\ pending = [k \in DOMAIN sampleTransactions |->
                     MemBeginCreateTransaction(MemSeedStore, sampleTransactions[k])]

NextSeeds ==
    \/ \E t \in SeedTimeTransactions : BeginCreateTransaction(t)
    \/ ResumeCreateTransaction

SpecSeeds == InitSeeds /\ [][NextSeeds]_vars

(***************************************************************************)
(* Properties.                                                             *)
(***************************************************************************)
RECURSIVE SumAmounts(_, _)
SumAmounts(rows, ids) ==
    IF ids = {} THEN 0
    ELSE LET t == CHOOSE x \in ids : TRUE
         IN  rows[t].amount + SumAmounts(rows, ids \ {t})

\* the stored transactions of a type that reference account a
Referencing(a, type) ==
    {t \in DOMAIN transactions :
        transactions[t].accountId = a /\ transactions[t].type = type}

StoreUnchanged == UNCHANGED storeVars

\* C1: (DatabaseStorage, calls run one after the other) every account's balance
\* is its initial balance plus the amounts of the stored income transactions
\* that reference it minus the amounts of the stored expense transactions
\* that reference it.
C1_BalanceInvariant ==
    impl = "db" =>
        \A a \in DOMAIN accounts :
            accounts[a].balance =
                initialBalance[a]
                    + SumAmounts(transactions, Referencing(a, "income"))
                    - SumAmounts(transactions, Referencing(a, "expense"))

\* C2: (DatabaseStorage, createTransaction calls overlapping at the store under
\* read committed) once every call has returned, the balance of every account
\* includes the delta of every stored transaction that references it: no
\* balance update is lost.
C2_NoLostUpdate ==
    (\A c \in Connections : conn[c].pc = "idle") =>
        \A a \in DOMAIN accounts :
            accounts[a].balance - initialBalance[a] =
                SumAmounts(transactions, Referencing(a, "income"))
                    - SumAmounts(transactions, Referencing(a, "expense"))

\* C3: a DatabaseStorage createTransaction whose account does not exist, and an
\* updateTransaction that adjusts balances while the old or the new account does
\* not exist, throws and leaves the transactions and the balances as they were.
C3_MissingAccountAborts ==
    [][impl = "db" =>
        /\ \A t \in LedgerTransactions :
              (CreateTransaction(t) /\ t.accountId \notin DOMAIN accounts)
                  => (last'.result = "error" /\ StoreUnchanged)
        /\ \A id \in DOMAIN transactions, patch \in LedgerPatches :
              (/\ UpdateTransaction(id, patch)
               /\ DbTouchesBalance(patch)
               /\ \/ transactions[id].accountId \notin DOMAIN accounts
                  \/ DbNewAccountId(transactions[id], patch) \notin DOMAIN accounts)
                  => (last'.result = "error" /\ StoreUnchanged)
      ]_vars

\* the categories a transaction of a type may name
CategoriesFor(type) ==
    IF type = "income" THEN DOMAIN incomeCategories
    ELSE IF type = "expense" THEN DOMAIN expenseCategories
    ELSE {}

\* the accounts after delta is added to the balance of account a
Credited(a, delta) ==
    [x \in DOMAIN accounts |->
        IF x = a THEN [accounts[x] EXCEPT !.balance = @ + delta] ELSE accounts[x]]

\* C4: in every store MemStorage reaches, createTransaction throws, adding no
\* transaction and changing no balance, when the account does not exist, the
\* type is neither income nor expense or the category id is not among the
\* categories of the type; otherwise it stores the transaction under the next
\* id and adds +amount (income) or -amount (expense) to the balance of that
\* account and of no other.
C4_MemCreateTransaction ==
    impl = "mem" =>
        \A t \in CreateInputs :
            LET r == createTransaction(impl, Store, t)
            IN  IF \/ t.accountId \notin DOMAIN accounts
                   \/ t.categoryId \notin CategoriesFor(t.type)
                THEN r.result = "error" /\ r.store = Store
                ELSE /\ r.result = "ok"
                     /\ r.store.transactions = Put(transactions, transactionIdCounter, t)
                     /\ r.store.accounts = Credited(t.accountId,
                            IF t.type = "income" THEN t.amount ELSE 0 - t.amount)

\* a MemStorage createTransaction was refused while an account was already gone
C4_Witness ==
    /\ impl = "mem"
    /\ last.op = "createTransaction" /\ last.result = "error"
    /\ DOMAIN accounts # DOMAIN initialBalance
    /\ transactions = Rows0

\* C5: deleteAccount(id) throws whenever a stored transaction has accountId = id,
\* and the refused call leaves accounts, categories and transactions as they were.
C5_DeleteAccountGuard ==
    [][\A id \in AccountIdInputs :
        (DeleteAccount(id) /\ \E t \in DOMAIN transactions : transactions[t].accountId = id)
            => (last'.result = "error" /\ StoreUnchanged)
      ]_vars

\* the outcome the claim gives a delete of category id of a kind
CategoryDeleteAsClaimed(kind, id, rows, rowsAfter) ==
    /\ (last'.result = "error") <=>
           \E t \in DOMAIN transactions :
               transactions[t].type = kind /\ transactions[t].categoryId = id
    /\ last'.result = "error" => StoreUnchanged
    /\ last'.result # "error" =>
           /\ last'.result = "true"
           /\ rowsAfter = Remove(rows, id)
           /\ transactions' = transactions

\* C6: the delete of an existing income (expense) category throws exactly when a
\* stored income (expense) transaction has its id as categoryId; a transaction of
\* the other type with that categoryId does not block it; a refused delete
\* changes nothing.
C6_CategoryDeleteGuard ==
    [][\A id \in CategoryIdInputs :
        /\ (DeleteIncomeCategory(id) /\ id \in DOMAIN incomeCategories)
              => CategoryDeleteAsClaimed("income", id, incomeCategories, incomeCategories')
        /\ (DeleteExpenseCategory(id) /\ id \in DOMAIN expenseCategories)
              => CategoryDeleteAsClaimed("expense", id, expenseCategories, expenseCategories')
      ]_vars

\* an income category was deleted while an expense transaction carries its id
C6_Witness ==
    /\ impl = "mem"
    /\ last.op = "deleteIncomeCategory" /\ last.result = "true"
    /\ \E t \in DOMAIN transactions :
           transactions[t].type = "expense" /\ transactions[t].categoryId = last.id

\* two names are equal ignoring letter case
SameLetter(c, d) == c = d \/ {c, d} \in {{"A", "a"}, {"B", "b"}}

EqualIgnoringCase(n, m) ==
    Len(n) = Len(m) /\ \A j \in 1..Len(n) : SameLetter(n[j], m[j])

\* the outcome the claim gives a create of a category named name
CategoryCreateAsClaimed(name, rows, rowsAfter, counter) ==
    IF \E c \in DOMAIN rows : EqualIgnoringCase(rows[c].name, name)
    THEN last'.result = "error" /\ rowsAfter = rows
    ELSE last'.result = "ok" /\ rowsAfter = Put(rows, counter, [name |-> name])

\* C7: createIncomeCategory (createExpenseCategory) throws and adds nothing when
\* an income (expense) category already has the name ignoring letter case, and
\* otherwise adds the category, whatever the categories of the other kind are.
C7_CreateCategoryUnique ==
    [][\A name \in Names :
        /\ CreateIncomeCategory([name |-> name])
              => /\ CategoryCreateAsClaimed(name, incomeCategories, incomeCategories',
                                            incomeCategoryIdCounter)
                 /\ expenseCategories' = expenseCategories
        /\ CreateExpenseCategory([name |-> name])
              => /\ CategoryCreateAsClaimed(name, expenseCategories, expenseCategories',
                                            expenseCategoryIdCounter)
                 /\ incomeCategories' = incomeCategories
      ]_vars

\* a createIncomeCategory was refused while categories of both kinds exist
C7_Witness ==
    /\ last.op = "createIncomeCategory" /\ last.result = "error"
    /\ incomeCategories # Rows0
    /\ expenseCategories # Rows0

\* the outcome the claim gives an update of the name of category id
CategoryUpdateAsClaimed(id, name, rows, rowsAfter) ==
    IF \E c \in DOMAIN rows \ {id} : EqualIgnoringCase(rows[c].name, name)
    THEN last'.result = "error" /\ rowsAfter = rows
    ELSE last'.result = "ok" /\ rowsAfter = Put(rows, id, [name |-> name])

\* C8: updateIncomeCategory (updateExpenseCategory) of an existing category with
\* a new name throws, changing nothing, when another category of the kind has
\* that name ignoring letter case, and otherwise renames the category.
C8_UpdateCategoryUnique ==
    [][\A id \in CategoryIdInputs, name \in Names :
        /\ (UpdateIncomeCategory(id, [name |-> name]) /\ id \in DOMAIN incomeCategories)
              => CategoryUpdateAsClaimed(id, name, incomeCategories, incomeCategories')
        /\ (UpdateExpenseCategory(id, [name |-> name]) /\ id \in DOMAIN expenseCategories)
              => CategoryUpdateAsClaimed(id, name, expenseCategories, expenseCategories')
      ]_vars

\* C9: (DatabaseStorage, deleteAccount and createTransaction overlapping or not)
\* no stored transaction references an account that has been deleted.
C9_NoTransactionOfDeletedAccount ==
    \A t \in DOMAIN transactions :
        transactions[t].accountId \notin DOMAIN initialBalance \ DOMAIN accounts

\* C10: (DatabaseStorage, category creates overlapping or not) no two income
\* categories and no two expense categories have names that are equal ignoring
\* letter case.
C10_NamesUniqueIgnoringCase ==
    \A rows \in {incomeCategories, expenseCategories} :
        \A c, d \in DOMAIN rows :
            c # d => ~EqualIgnoringCase(rows[c].name, rows[d].name)

\* C11: updateTransaction with a patch that supplies none of amount, type and
\* accountId leaves the balance of every account as it was (DatabaseStorage
\* and MemStorage).
C11_DetailUpdateKeepsBalances ==
    \A id \in TransactionIdInputs, patch \in DetailPatches[impl] :
        updateTransaction(impl, Store, id, patch).store.accounts = accounts

\* a transaction that moved a balance had its categoryId changed
C11_Witness ==
    /\ last.op = "updateTransaction" /\ last.result = "ok"
    /\ last.id \in DOMAIN transactions
    /\ transactions[last.id].categoryId # SharedCategoryIdOf(impl)
    /\ transactions[last.id].accountId \in DOMAIN accounts
    /\ accounts[transactions[last.id].accountId].balance
           # initialBalance[transactions[last.id].accountId]

C13_UpdateAccountKeepsBalance ==
    [][\A id \in AccountIdInputs, account \in AccountPatches :
          UpdateAccount(id, account) =>
              \A a \in DOMAIN accounts : accounts'[a].balance = accounts[a].balance
      ]_vars


\* the call of connection c run as one piece on the committed store
WholeCall(c) ==
    IF conn[c].op = "createTransaction"
    THEN DbCreateTransaction([Store EXCEPT !.transactionIdCounter = conn[c].id], conn[c].t)
    ELSE IF conn[c].op = "updateTransaction"
    THEN DbUpdateTransaction(Store, conn[c].id, conn[c].patch)
    ELSE DbDeleteTransaction(Store, conn[c].id)

\* C14: DatabaseStorage createTransaction, updateTransaction and
\* deleteTransaction run inside one db.transaction. A call that fails at any
\* statement leaves the committed transactions and balances exactly as they
\* were, and the committed store, which is what every other connection reads,
\* changes only in the step that commits a call, where the row change and the
\* balance changes of the whole call appear together.
C14_TransactionsAtomic ==
    [][/\ \A c \in Connections :
              (conn[c].pc # "idle" /\ conn'[c].pc = "idle" /\ conn'[c].result = "error")
                  => (transactions' = transactions /\ accounts' = accounts)
       /\ (transactions' # transactions \/ accounts' # accounts) =>
              \E c \in Connections :
                  /\ conn[c].pc = "commit"
                  /\ conn'[c].pc = "idle"
                  /\ conn'[c].result # "error"
                  /\ transactions' = WholeCall(c).store.transactions
                  /\ accounts' = WholeCall(c).store.accounts]_vars

\* an updateTransaction that has set the balances of two accounts and the row,
\* none of them committed: a failure or a read comes next
C14_Witness ==
    \E c \in Connections :
        /\ conn[c].pc = "commit"
        /\ conn[c].op = "updateTransaction"
        /\ conn[c].row = "put"
        /\ conn[c].t # transactions[conn[c].id]
        /\ Cardinality(DOMAIN conn[c].writes) = 2
        /\ \A a \in DOMAIN conn[c].writes : conn[c].writes[a] # accounts[a].balance

\* C15: every stored transaction has an amount greater than zero.
C15_AmountPositive ==
    \A t \in DOMAIN transactions : transactions[t].amount > 0

\* C16: (MemStorage) every stored transaction references an existing account
\* and a category that exists among the categories of its own type.
C16_MemReferencesResolve ==
    impl = "mem" =>
        \A t \in DOMAIN transactions :
            /\ transactions[t].accountId \in DOMAIN accounts
            /\ transactions[t].type = "income"
                   => transactions[t].categoryId \in DOMAIN incomeCategories
            /\ transactions[t].type = "expense"
                   => transactions[t].categoryId \in DOMAIN expenseCategories

\* C17: every stored transaction has type income or expense.
C17_TypeIncomeOrExpense ==
    \A t \in DOMAIN transactions : transactions[t].type \in {"income", "expense"}

\* C18: (DatabaseStorage) the period last-month, as the routes pass it,
\* resolves to the interval from the first day to the last day of the month
\* before now's.
C18_DbLastMonth ==
    (impl = "db" /\ resolved.period = "last-month") =>
        LET at == resolved.at
            previous == [at EXCEPT !.year = IF at.month = 1 THEN at.year - 1 ELSE at.year,
                                   !.month = IF at.month = 1 THEN 12 ELSE at.month - 1,
                                   !.day = 1]
        IN  /\ resolved.result = "ok"
            /\ resolved.start.year = previous.year
            /\ resolved.start.month = previous.month
            /\ resolved.start.day = 1
            /\ resolved.end.year = previous.year
            /\ resolved.end.month = previous.month
            /\ resolved.end.day = dateFns.getDaysInMonth[previous]

\* C19: (DatabaseStorage and MemStorage) the period this-month resolves to an
\* interval that starts with the first day of now's month and has
\* start <= now <= end, and a second call at the same now returns the same
\* interval.
C19_ThisMonth ==
    [][(impl \in {"db", "mem"} /\ resolved'.period = "this-month") =>
          /\ resolved'.result = "ok"
          /\ resolved'.start = [resolved'.at EXCEPT !.day = 1, !.time = "00:00:00.000"]
          /\ getTime(resolved'.start) <= getTime(resolved'.at)
          /\ getTime(resolved'.at) <= getTime(resolved'.end)
          /\ (resolved.period = "this-month" /\ resolved.at = resolved'.at) =>
                 (resolved'.start = resolved.start /\ resolved'.end = resolved.end)
      ]_vars

\* this-month resolved in the last moment of a month, with a custom range
\* supplied that the resolver has to ignore
C19_Witness ==
    /\ impl = "mem"
    /\ resolved.period = "this-month"
    /\ resolved.customRange # {}
    /\ resolved.at.day = 31
    /\ resolved.at.time = "23:59:59.999"
    /\ resolved.end = resolved.at

\* C20: (DatabaseStorage, MemStorage, SupabaseStorage) the period custom with
\* no customRange resolves to an error, never to an interval.
C20_CustomNeedsRange ==
    (resolved.period = "custom" /\ resolved.customRange = {}) => resolved.result = "error"

\* C21: (DatabaseStorage and MemStorage) a period the resolver has no case
\* for resolves to this month, from the start of the first day to the end of
\* the last day of now's month, never to all time and never to an empty
\* interval.
C21_UnrecognisedIsThisMonth ==
    (/\ impl \in {"db", "mem"}
     /\ resolved.period \notin {"none", "this_week", "this_month", "last_month",
                                "this_year", "custom"}) =>
        /\ resolved.result = "ok"
        /\ resolved.start = [resolved.at EXCEPT !.day = 1, !.time = "00:00:00.000"]
        /\ resolved.end = [resolved.at EXCEPT !.day = dateFns.getDaysInMonth[resolved.at],
                                              !.time = "23:59:59.999"]
        /\ getTime(resolved.start) < getTime(resolved.end)

\* the period all, which the resolver of DatabaseStorage has no case for,
\* resolved on the last day of a month
C21_Witness ==
    /\ impl = "db"
    /\ resolved.period = "all"
    /\ resolved.at.day = 31
    /\ resolved.start.day = 1
    /\ resolved.start.month = resolved.at.month

\* ---- reports ----

\* the stored transactions of the given types dated from the day of startDate
\* to the day of endDate, both days included
StoredWithin(startDate, endDate, types) ==
    LET day(x) == (x.year * 12 + (x.month - 1)) * 31 + (x.day - 1)
    IN  {t \in DOMAIN transactions :
            /\ transactions[t].type \in types
            /\ day(transactions[t].date) >= day(startDate)
            /\ day(transactions[t].date) <= day(endDate)}

\* C22: getTransactionsByDateRange(start, end) returns exactly the stored
\* transactions dated from the start day to the end day, both included
C22_DateRangeInclusive ==
    last.op = "getTransactionsByDateRange" =>
        last.result = StoredWithin(last.call.startDate, last.call.endDate,
                                   {"income", "expense"})

\* the stored transactions of a type dated in a month of a year
StoredInMonth(type, year, month) ==
    {t \in DOMAIN transactions :
        /\ transactions[t].type = type
        /\ transactions[t].date.year = year
        /\ transactions[t].date.month = month}

\* C23: getMonthlyData(year) returns 12 rows, month = 1..12 in ascending
\* order, each with the sums of the income and of the expense transactions
\* dated in that month of the year, 0 and 0 for a month without any
C23_MonthlyData ==
    last.op = "getMonthlyData" =>
        /\ DOMAIN last.result = 1..12
        /\ \A m \in 1..12 :
            /\ last.result[m].month = m
            /\ last.result[m].income =
                   SumAmounts(transactions, StoredInMonth("income", last.call.year, m))
            /\ last.result[m].expense =
                   SumAmounts(transactions, StoredInMonth("expense", last.call.year, m))

\* the stored transactions of a type dated in the month of now, the interval
\* every period label but custom stands for (C19, C21)
StoredThisMonth(type) ==
    StoredWithin(dateFns.startOfMonth[now], dateFns.endOfMonth[now], {type})

\* C24: DatabaseStorage.getIncomeByCategorySum and getExpenseByCategorySum
\* return one row per categoryId with transactions of the type in the
\* interval, its sum the total of their amounts, no row for a sum that is not
\* above 0, the rows ordered by sum descending
C24_DbByCategorySum ==
    (impl = "db" /\ last.op \in {"getIncomeByCategorySum", "getExpenseByCategorySum"}) =>
        LET type == IF last.op = "getIncomeByCategorySum" THEN "income" ELSE "expense"
            matching == StoredThisMonth(type)
            total(c) == SumAmounts(transactions,
                                   {t \in matching : transactions[t].categoryId = c})
            expected == {c \in {transactions[t].categoryId : t \in matching} :
                            total(c) > 0}
            rows == last.result
        IN  /\ Len(rows) = Cardinality(expected)
            /\ {rows[k].categoryId : k \in DOMAIN rows} = expected
            /\ \A k \in DOMAIN rows : rows[k].sum = total(rows[k].categoryId)
            /\ \A k \in DOMAIN rows : \A l \in DOMAIN rows :
                   k < l => rows[k].sum >= rows[l].sum

\* C25: getIncomeSum(period) and getExpenseSum(period) return the sum of the
\* amounts of exactly the income, or the expense, transactions dated within
\* the resolved interval, 0 when there is none
C25_SumOverInterval ==
    last.op \in {"getIncomeSum", "getExpenseSum"} =>
        LET type == IF last.op = "getIncomeSum" THEN "income" ELSE "expense"
            within ==
                IF last.call.period = "custom"
                THEN UNION {StoredWithin(range.startDate, range.endDate, {type}) :
                               range \in last.call.customRange}
                ELSE StoredThisMonth(type)
        IN  last.result = SumAmounts(transactions, within)

\* every account's balance is its initial balance plus the income minus the
\* expense amounts of the stored transactions that reference it
BalancesFollowLedger ==
    \A a \in DOMAIN accounts :
        accounts[a].balance =
            initialBalance[a] + SumAmounts(transactions, Referencing(a, "income"))
                              - SumAmounts(transactions, Referencing(a, "expense"))

\* C26: getTotalBalance returns the sum of the balances of the stored
\* accounts, 0 when there is none; where the balance invariant holds, that is
\* the sum of the initial balances plus all stored income amounts minus all
\* stored expense amounts
C26_TotalBalance ==
    last.op = "getTotalBalance" =>
        /\ last.result = Sum([a \in DOMAIN accounts |-> accounts[a].balance],
                             DOMAIN accounts)
        /\ DOMAIN accounts = {} => last.result = 0
        /\ BalancesFollowLedger =>
               last.result =
                   Sum(initialBalance, DOMAIN accounts)
                       + SumAmounts(transactions,
                             {t \in DOMAIN transactions : transactions[t].type = "income"})
                       - SumAmounts(transactions,
                             {t \in DOMAIN transactions : transactions[t].type = "expense"})

\* ---- calls on a transaction that is not stored ----

\* C27: updateTransaction(id, patch) returns undefined and
\* deleteTransaction(id) returns false when no transaction has the id, and
\* neither changes a balance or a stored record (DatabaseStorage and
\* MemStorage)
C27_AbsentIdChangesNothing ==
    \A id \in TransactionIdInputs \ DOMAIN transactions :
        /\ \A patch \in BalancePatchesOf(impl) \cup DetailPatches[impl] :
               /\ updateTransaction(impl, Store, id, patch).result = "undefined"
               /\ updateTransaction(impl, Store, id, patch).store = Store
        /\ deleteTransaction(impl, Store, id).result = "false"
        /\ deleteTransaction(impl, Store, id).store = Store

\* a transaction was created and deleted, and a second delete of its id
\* returned false
C27_Witness ==
    /\ last.op = "deleteTransaction" /\ last.result = "false"
    /\ last.id \notin DOMAIN transactions
    /\ last.id < transactionIdCounter

\* C28: a MemStorage.updateTransaction call that fails with an error leaves
\* every account balance and the stored transaction as they were before it
C28_MemFailedUpdateChangesNothing ==
    impl = "mem" =>
        \A id \in DOMAIN transactions :
            \A patch \in Extend(BalancePatchesOf("mem"), "categoryId", CategoryIdsOf("mem")) :
                LET r == MemUpdateTransaction(Store, id, patch)
                IN  r.result = "error" =>
                        /\ r.store.accounts = accounts
                        /\ r.store.transactions = transactions

\* ---- MemStorage's sample data ----

\* C29: once every createTransaction call started by MemStorage's constructor
\* or by a caller that does not await it has completed, every account's
\* balance is the balance it was seeded with plus the stored income minus
\* the stored expense amounts that reference it: no balance update is lost
C29_SeedsLoseNoUpdate ==
    (impl = "mem" /\ pending = <<>>) => BalancesFollowLedger

\* ---- updateTransaction moving a transaction to another account ----

\* what a transaction of a type and an amount adds to its account's balance
Delta(type, amount) == IF type = "income" THEN amount ELSE -amount

\* C30: when updateTransaction changes accountId from account A to another
\* existing account B, A's balance changes by minus the old transaction's
\* delta and B's by plus the new delta, which takes the amount and the type
\* of the patch and, for each the patch leaves unset, of the old transaction
\* (DatabaseStorage and MemStorage)
C30_MoveBetweenAccounts ==
    \A id \in DOMAIN transactions :
        \A patch \in BalancePatchesOf(impl) :
            LET old == transactions[id]
                amount == IF Has(patch, "amount") THEN patch.amount ELSE old.amount
                type == IF Has(patch, "type") THEN patch.type ELSE old.type
                r == updateTransaction(impl, Store, id, patch)
            IN  (/\ Has(patch, "accountId")
                 /\ patch.accountId # old.accountId
                 /\ {old.accountId, patch.accountId} \subseteq DOMAIN accounts
                 /\ {old.type, type} \subseteq {"income", "expense"}) =>
                    /\ r.store.accounts[old.accountId].balance =
                           accounts[old.accountId].balance - Delta(old.type, old.amount)
                    /\ r.store.accounts[patch.accountId].balance =
                           accounts[patch.accountId].balance + Delta(type, amount)

\* ---- updateTransaction on the account the transaction keeps ----

\* C31: when updateTransaction keeps the account and changes the amount, the
\* type or both, the account's balance changes by the new delta minus the
\* old delta (DatabaseStorage and MemStorage)
C31_SameAccountRebalance ==
    \A id \in DOMAIN transactions :
        \A patch \in BalancePatchesOf(impl) :
            LET old == transactions[id]
                amount == IF Has(patch, "amount") THEN patch.amount ELSE old.amount
                type == IF Has(patch, "type") THEN patch.type ELSE old.type
                r == updateTransaction(impl, Store, id, patch)
            IN  (/\ Has(patch, "accountId") => patch.accountId = old.accountId
                 /\ Has(patch, "amount") \/ Has(patch, "type")
                 /\ old.accountId \in DOMAIN accounts
                 /\ {old.type, type} \subseteq {"income", "expense"}) =>
                    r.store.accounts[old.accountId].balance =
                        accounts[old.accountId].balance
                            + Delta(type, amount) - Delta(old.type, old.amount)

\* ---- MemStorage.updateTransaction and the category of the patch ----

\* C32: MemStorage.updateTransaction checks the category against the
\* categories of the effective type (the new categoryId against the new type,
\* the new categoryId against the stored type, or the stored categoryId
\* against a changed type) and fails, without storing the patch, when that
\* category does not exist
C32_MemCategoryOfEffectiveType ==
    impl = "mem" =>
        \A id \in DOMAIN transactions :
            \A patch \in Extend(DetailPatches["mem"], "type", {"income", "expense"}) :
                LET old == transactions[id]
                    type == IF Has(patch, "type") THEN patch.type ELSE old.type
                    categoryId == IF Has(patch, "categoryId") THEN patch.categoryId
                                  ELSE old.categoryId
                    r == MemUpdateTransaction(Store, id, patch)
                IN  (/\ Has(patch, "categoryId") \/ type # old.type
                     /\ categoryId \notin DOMAIN categoriesOf(Store, type)) =>
                        /\ r.result = "error"
                        /\ r.store.transactions = transactions

\* ---- MemStorage's sums by category ----

\* C33: MemStorage.getIncomeByCategorySum and getExpenseByCategorySum return
\* no row whose sum is not above 0, and return the rows ordered by sum
\* descending
C33_MemByCategorySum ==
    (impl = "mem" /\ last.op \in {"getIncomeByCategorySum", "getExpenseByCategorySum"}) =>
        /\ \A k \in DOMAIN last.result : last.result[k].sum > 0
        /\ \A k \in DOMAIN last.result : \A l \in DOMAIN last.result :
               k < l => last.result[k].sum >= last.result[l].sum

\* ---- SupabaseStorage's date ranges ----

\* C34: SupabaseStorage.getTransactionsByDateRange, and getIncomeSum,
\* getExpenseSum and getMonthlyData built on it, include a transaction dated
\* on the day of the start bound or of the end bound; getMonthlyData counts a
\* transaction dated on the first day of a month in the row of that month
C34_SupabaseBoundsIncluded ==
    LET first == [year |-> 2023, month |-> 1, day |-> 1, time |-> "00:00:00.000"]
        final == [year |-> 2023, month |-> 2, day |-> 1, time |-> "23:59:59.999"]
        onBound(t, bound) == dateFns.isSameDay[parseISO(transactions[t].date), bound]
        firstOfMonth(type) ==
            {t \in DOMAIN transactions :
                transactions[t].type = type /\ onBound(t, dateFns.startOfMonth[now])}
    IN  /\ \A t \in DOMAIN transactions :
               (onBound(t, first) \/ onBound(t, final)) =>
                   t \in SupabaseGetTransactionsByDateRange(Store, first, final)
        /\ \A type \in {"income", "expense"} :
               SupabaseGetSum(Store, type, "this-month", {}, now)
                   >= SumAmounts(transactions, firstOfMonth(type))
        /\ \A t \in DOMAIN transactions :
               transactions[t].date.day = 1 =>
                   LET row == SupabaseGetMonthlyData(Store, transactions[t].date.year)[
                                  transactions[t].date.month]
                   IN  /\ row.income = SumAmounts(transactions,
                           StoredInMonth("income", transactions[t].date.year,
                                         transactions[t].date.month))
                       /\ row.expense = SumAmounts(transactions,
                           StoredInMonth("expense", transactions[t].date.year,
                                         transactions[t].date.month))

\* ---- the accounts a transaction call touches ----

\* the accounts of store S are the stored accounts, equal to them in every
\* column but the balance, and in the balance too outside the touched ones
OnlyBalancesOf(S, touched) ==
    /\ DOMAIN S.accounts = DOMAIN accounts
    /\ \A a \in DOMAIN accounts :
           /\ a \notin touched => S.accounts[a] = accounts[a]
           /\ DOMAIN S.accounts[a] = DOMAIN accounts[a]
           /\ \A f \in DOMAIN accounts[a] \ {"balance"} : S.accounts[a][f] = accounts[a][f]

\* C35: createTransaction and deleteTransaction change no balance but that of
\* the account the transaction references, updateTransaction none but those
\* of the transaction's old and new account; no call changes an account's
\* name, type or description (DatabaseStorage and MemStorage)
C35_OnlyReferencedAccounts ==
    /\ \A t \in LedgerTransactions :
           OnlyBalancesOf(createTransaction(impl, Store, t).store, {t.accountId})
    /\ \A id \in DOMAIN transactions :
           /\ \A patch \in LedgerPatches \cup DetailPatches[impl] :
                  OnlyBalancesOf(updateTransaction(impl, Store, id, patch).store,
                                 {transactions[id].accountId} \cup
                                     (IF Has(patch, "accountId") THEN {patch.accountId}
                                      ELSE {}))
           /\ OnlyBalancesOf(deleteTransaction(impl, Store, id).store,
                             {transactions[id].accountId})

\* an update has moved a stored transaction to another account: that
\* account's balance has left its initial value, and the accounts carry
\* their other columns
C35_Witness ==
    /\ last.op = "updateTransaction" /\ last.result = "ok"
    /\ last.id \in DOMAIN transactions
    /\ \E a \in DOMAIN accounts, b \in DOMAIN accounts :
           /\ a # b
           /\ transactions[last.id].accountId = b
           /\ accounts[b].balance # initialBalance[b]
           /\ accounts[a].balance = initialBalance[a]
           /\ accounts[a].name # accounts[b].name
           /\ accounts[a].type # accounts[b].type

\* ---- deleteTransaction calls that overlap ----

\* C36: (DatabaseStorage) when deleteTransaction calls for the same id
\* overlap, the transaction's effect on its account's balance is reversed
\* exactly once, so that once the calls have returned every balance follows
\* the ledger, and at most one of the calls returns true
C36_OverlappingDeletes ==
    (\A c \in Connections : conn[c].pc = "idle") =>
        /\ BalancesFollowLedger
        /\ \A c \in Connections : \A d \in Connections \ {c} :
               ~ (/\ conn[c].op = "deleteTransaction" /\ conn[d].op = "deleteTransaction"
                  /\ conn[c].id = conn[d].id
                  /\ conn[c].result = "true" /\ conn[d].result = "true")

\* ---- the two storages side by side ----

\* two calls end alike: the same outcome, the same stored transactions and
\* the same accounts
EndAlike(r, q) ==
    /\ r.result = q.result
    /\ r.store.transactions = q.store.transactions
    /\ r.store.accounts = q.store.accounts

\* C37: MemStorage and DatabaseStorage are interchangeable: a
\* createTransaction, updateTransaction or deleteTransaction call applied to
\* both on equal accounts, categories and transactions succeeds or fails in
\* both alike and leaves both with the same stored transactions and the same
\* balances, so that no sequence of calls tells them apart
C37_StoragesInterchangeable ==
    /\ \A t \in TransactionsOf(Amounts, AccountIdInputs, CategoryIdInputs) :
           EndAlike(DbCreateTransaction(Store, t), MemCreateTransaction(Store, t))
    /\ \A id \in TransactionIdInputs :
           /\ \A patch \in LedgerPatches \cup DetailPatches[impl] :
                  EndAlike(DbUpdateTransaction(Store, id, patch),
                           MemUpdateTransaction(Store, id, patch))
           /\ EndAlike(DbDeleteTransaction(Store, id), MemDeleteTransaction(Store, id))

\* ---- DatabaseStorage's totals against its sums by category ----

\* C38: (DatabaseStorage) for every period, the sum fields of the rows of
\* getIncomeByCategorySum add up to getIncomeSum of the same period, and those
\* of getExpenseByCategorySum to getExpenseSum
C38_ByCategoryAddsUp ==
    impl = "db" =>
        \A type \in {"income", "expense"} : \A period \in {"this-month", "this_month"} :
            LET rows == DbGetByCategorySum(Store, type, period, {}, now, timezone)
            IN  Sum([k \in DOMAIN rows |-> rows[k].sum], DOMAIN rows)
                    = DbGetSum(Store, type, period, {}, now, timezone)

\* ---- the list of transactions with details ----

\* C39: (DatabaseStorage) getTransactionsWithDetails returns exactly one entry
\* for each stored transaction: its entries carry the ids getTransactions
\* returns, each id once
C39_DetailsListEveryTransaction ==
    impl = "db" =>
        /\ {row.id : row \in DbGetTransactionsWithDetails(Store)} = DbGetTransactions(Store)
        /\ \A t \in DbGetTransactions(Store) :
               Cardinality({row \in DbGetTransactionsWithDetails(Store) : row.id = t}) = 1
====
